---- MODULE Spec2Model ----
(***************************************************************************)
(* Model of the incident-response coordination layer:                      *)
(*   core/approval.py        ApprovalEvaluator                             *)
(*   core/orchestrator.py    Orchestrator                                  *)
(*   core/runbook_engine.py  RunbookStepExecutor                           *)
(*                                                                         *)
(*   integrations/registry.py  IntegrationRegistry (with app/config.py)    *)
(*                                                                         *)
(* The specifications share the module's variables:                        *)
(*   SpecApproval  the evaluator called directly on a list of actions      *)
(*   Spec          the Orchestrator's operations on one incident           *)
(*   SpecRunbook   execute_runbook / resume_runbook on one execution       *)
(*   SpecStages    gather_context, verify and verify_with_retry called on  *)
(*                 one incident                                            *)
(*   SpecTimeline  Orchestrator stages and runbook calls interleaved on    *)
(*                 one incident                                            *)
(*   SpecRegistry  get_provider / reset on one IntegrationRegistry         *)
(*   SpecTemplates resolve_template / resolve_params applied to one input  *)
(*   SpecInterleaved  two execute_approved_actions coroutines, step by     *)
(*                 step between suspension points                          *)
(***************************************************************************)
EXTENDS Integers, Sequences, FiniteSets, TLC

VARIABLES
    \* ---- approval evaluator / incident actions ----
    policy,        \* ApprovalEvaluator._policy : risk level -> policy type
    actions,       \* the list of Action records (incident.actions)
    submitted,     \* history: per action, the approver names passed to add_approval
    lastOp,        \* history: the last operation, its arguments and return value
    nops,          \* number of caller-level operations performed so far
    \* ---- orchestrator ----
    status,        \* incident.status ("none": no incident yet)
    classification,\* incident.classification
    findings,      \* incident.findings: the gather call and item behind each finding
    resolved_at,   \* incident.resolved_at
    summary,       \* incident.summary
    timeline,      \* incident.timeline: event type, source and subject of each entry
    stamps,        \* the timestamp of each timeline entry, in list order
    now,           \* the latest reading of the clock (readings are numbered in order)
    dispatched,    \* history: one record per action attempted by execute_approved_actions
    trace,         \* history: the calls the last gather or verify operation made, in order
    \* ---- runbook executor ----
    runbook,       \* Runbook.steps
    execution,     \* the RunbookExecution
    calls,         \* history: one record per execute_runbook / resume_runbook call
    \* ---- integration registry ----
    settings,      \* the Settings the registry was built with
    cache,         \* IntegrationRegistry._cache: category -> instance (0: no entry)
    instances,     \* number of provider instances constructed so far
    lookups,       \* history: one record per get_provider / reset call
    \* ---- template resolver ----
    tinput,        \* the string or params mapping handed to the resolver
    toutput,       \* what resolve_template / resolve_params returned for it
    \* ---- concurrent execute_approved_actions calls ----
    coroutines     \* per coroutine: where it is, the action it is at, its list

approvalVars == <<policy, actions, submitted, lastOp, nops>>
orchVars     == <<status, classification, findings, resolved_at, summary,
                  timeline, stamps, now, dispatched, trace>>
\* the orchestrator's variables a runbook execution leaves alone
orchRest     == <<status, classification, findings, resolved_at, summary, dispatched,
                  trace>>
rbVars       == <<runbook, execution, calls>>
regVars      == <<settings, cache, instances, lookups>>
tplVars      == <<tinput, toutput>>
coVars       == <<coroutines>>
vars         == <<policy, actions, submitted, lastOp, nops,
                  status, classification, findings, resolved_at, summary,
                  timeline, stamps, now, dispatched, trace,
                  runbook, execution, calls,
                  settings, cache, instances, lookups,
                  tinput, toutput, coroutines>>

None == "None"

(***************************************************************************)
(* Bounds                                                                  *)
(***************************************************************************)
MaxActions == 2     \* longest list of actions
MaxOps     == 4     \* caller-level operations in one behaviour
MaxSteps   == 3     \* longest runbook
MaxCalls   == 3     \* execute_runbook / resume_runbook calls in one behaviour
MaxAttempts == 2    \* largest max_attempts given to verify_with_retry by run_full_workflow
MaxStageOps == 2    \* gather / verify operations in one behaviour
MaxDeviations == 2  \* gather blocks that meet something other than one item
MaxRetries == 3     \* largest max_attempts given to verify_with_retry directly
MaxTimelineOps == 2 \* stage operations and runbook calls interleaved on one incident
MaxRegistryOps == 4 \* get_provider / reset calls on one registry
MaxSegments == 2       \* segments of a template string
MaxDepth == 2          \* nesting depth of a params value

Approvers == {"alice", "bob"}

\* The execute_approved_actions coroutines running on one incident.
Coroutines == {1, 2}

(***************************************************************************)
(* core/approval.py                                                        *)
(***************************************************************************)
RiskLevels == {"low", "medium", "high", "critical"}

ApprovalPolicyType == {"auto", "require_one", "require_two"}

DEFAULT_POLICY ==
    [r \in RiskLevels |->
        CASE r = "low"      -> "auto"
          [] r = "medium"   -> "require_one"
          [] r = "high"     -> "require_one"
          [] r = "critical" -> "require_two"]

\* A custom ApprovalPolicy(low=REQUIRE_ONE, high=REQUIRE_TWO, critical=AUTO)
CustomPolicy ==
    [r \in RiskLevels |->
        CASE r = "low"      -> "require_one"
          [] r = "medium"   -> "require_one"
          [] r = "high"     -> "require_two"
          [] r = "critical" -> "auto"]

Policies == {DEFAULT_POLICY, CustomPolicy}

\* The two decision fields that approval.py reads and writes on an Action and
\* that the Action class does not declare: the ordered list of distinct
\* approver names (empty at construction) and the rejector's name (unset).
ActionDecisionFields ==
    [approvals   |-> <<>>,
     rejected_by |-> None]

\* Action(...) as constructed: no decision, no execution.
NewAction(type, risk, req, integ) ==
    [action_type       |-> type,
     risk_level        |-> risk,
     requires_approval |-> req,
     integration       |-> integ,
     approved          |-> None,
     approved_by       |-> None,
     executed_at       |-> None,
     result            |-> None,
     error             |-> None] @@ ActionDecisionFields

SeqToSet(s) == {s[i] : i \in 1..Len(s)}

policy_for(pol, action) ==
    IF ~action.requires_approval THEN "auto" ELSE pol[action.risk_level]

minimum_approvals_needed(pol, action) ==
    LET p == policy_for(pol, action) IN
    IF p = "auto" THEN 0
    ELSE IF p = "require_one" THEN 1
    ELSE 2

requires_human_approval(pol, action) == minimum_approvals_needed(pol, action) > 0

\* Mutant of is_approved: any single approval meets the threshold.
is_approved_one(pol, action) ==
    LET needed == minimum_approvals_needed(pol, action) IN
    IF needed = 0 THEN TRUE
    ELSE Len(action.approvals) >= 1

is_approved(pol, action) ==
    LET needed == minimum_approvals_needed(pol, action) IN
    IF needed = 0 THEN TRUE
    ELSE Len(action.approvals) >= needed

is_rejected(action) == action.rejected_by # None

\* Mutant of add_approval: the approver is appended without the membership test.
add_approval_dup(pol, action, approver) ==
    LET apps == Append(action.approvals, approver)
        a1   == [action EXCEPT !.approvals = apps, !.approved_by = apps[Len(apps)]]
    IN  IF is_approved(pol, a1)
        THEN [action |-> [a1 EXCEPT !.approved = "True"], ret |-> TRUE]
        ELSE [action |-> a1, ret |-> FALSE]

\* Mutant of add_approval: a new approver is put at the head of the list.
add_approval_front(pol, action, approver) ==
    LET apps == IF approver \in SeqToSet(action.approvals)
                THEN action.approvals
                ELSE <<approver>> \o action.approvals
        a1   == [action EXCEPT !.approvals = apps, !.approved_by = apps[Len(apps)]]
    IN  IF is_approved(pol, a1)
        THEN [action |-> [a1 EXCEPT !.approved = "True"], ret |-> TRUE]
        ELSE [action |-> a1, ret |-> FALSE]

\* add_approval: the mutated action and the return value.
add_approval(pol, action, approver) ==
    LET apps == IF approver \in SeqToSet(action.approvals)
                THEN action.approvals
                ELSE Append(action.approvals, approver)
        a1   == [action EXCEPT !.approvals = apps,
                               !.approved_by = IF Len(apps) > 0
                                               THEN apps[Len(apps)]
                                               ELSE approver]
    IN  IF is_approved(pol, a1)
        THEN [action |-> [a1 EXCEPT !.approved = "True"], ret |-> TRUE]
        ELSE [action |-> a1, ret |-> FALSE]

reject(action, by) ==
    [action EXCEPT !.approved = "False", !.rejected_by = by]

\* Mutant of AutoApproveOne: a decided action is not skipped.
AutoApproveOne_decided(pol, action) ==
    IF ~requires_human_approval(pol, action)
    THEN [action EXCEPT !.approved = "True", !.approved_by = "auto"]
    ELSE action

\* One iteration of the loop of apply_auto_approvals.
AutoApproveOne(pol, action) ==
    IF action.approved # None THEN action
    ELSE IF ~requires_human_approval(pol, action)
         THEN [action EXCEPT !.approved = "True", !.approved_by = "auto"]
         ELSE action

\* apply_auto_approvals: the mutated list and the indices of the returned actions,
\* in list order.
apply_auto_approvals(pol, acts) ==
    [actions |-> [i \in 1..Len(acts) |-> AutoApproveOne(pol, acts[i])],
     auto_approved |-> {i \in 1..Len(acts) :
                           /\ acts[i].approved = None
                           /\ ~requires_human_approval(pol, acts[i])}]

\* Mutant of get_pending_approvals: a rejected action is not filtered out.
get_pending_approvals_rejected(pol, acts) ==
    SelectSeq([i \in 1..Len(acts) |-> i],
              LAMBDA i : /\ requires_human_approval(pol, acts[i])
                         /\ ~is_approved(pol, acts[i]))

\* get_pending_approvals: the positions of the returned actions, in list order.
get_pending_approvals(pol, acts) ==
    SelectSeq([i \in 1..Len(acts) |-> i],
              LAMBDA i : /\ requires_human_approval(pol, acts[i])
                         /\ ~is_approved(pol, acts[i])
                         /\ ~is_rejected(acts[i]))

(***************************************************************************)
(* core/runbook_engine.py : RunbookStepExecutor                            *)
(*                                                                         *)
(* A step is identified by its position in the runbook (ids are unique).   *)
(* A result mapping is modelled by the step that produced it and the set   *)
(* of earlier steps whose data it could read (templates in params, the     *)
(* context of an ml_decision); the empty mapping is EmptyMap.              *)
(***************************************************************************)
VALID_ACTIONS == {"gather", "execute", "ml_decision"}

Steps == [action : VALID_ACTIONS, requires_approval : BOOLEAN]

EmptyMap == [by |-> 0, saw |-> {}]

\* No entry under that key in execution.results.
NoEntry == [by |-> -1, saw |-> {}]

\* No entry under that key in execution.step_results.
NoStepResult == [status |-> "absent", result |-> EmptyMap, executed_at |-> None]

TimelineEntry(event_type, source, ref) ==
    [event_type |-> event_type, source |-> source, ref |-> ref]

\* RunbookExecution(...) as built by execute_runbook for a runbook of n steps.
RunbookExecution(n) ==
    [status                 |-> "running",
     step_results           |-> [k \in 1..n |-> NoStepResult],
     results                |-> [k \in 1..n |-> NoEntry],
     pending_approval_steps |-> <<>>,
     completed_at           |-> None]

\* Before execute_runbook there is no execution.
NewExecution ==
    [status                 |-> "new",
     step_results           |-> <<>>,
     results                |-> <<>>,
     pending_approval_steps |-> <<>>,
     completed_at           |-> None]

\* The steps whose data a later step can read from `accumulated`.
Readable(accumulated) ==
    {k \in DOMAIN accumulated : accumulated[k] \notin {NoEntry, EmptyMap}}

\* execute_step: the provider or ML call of step i succeeds or raises, as `o` says.
execute_step(i, accumulated, o) ==
    IF o[i] = "ok"
    THEN [status |-> "success",
          result |-> [by |-> i, saw |-> Readable(accumulated)],
          executed_at |-> "set"]
    ELSE [status |-> "failed", result |-> EmptyMap, executed_at |-> "set"]

\* _now(): the clock is read. The clock does not run backwards, so a reading is
\* named by its place in the order of readings: the one after `clk` is clk + 1.
_now(clk) == clk + 1

\* Mutant of StepTimestamp: the entry carries a fixed default time.
StepTimestamp_default(executed_at, clk) == 0

\* The timestamp _append_timeline gives an entry: result.executed_at or _now()
\* (a reading is at least 1; 0 stands for an executed_at that was never set).
StepTimestamp(executed_at, clk) ==
    IF executed_at # 0 THEN executed_at ELSE _now(clk)

\* The clock and the timestamps once the entries `news` are appended in order.
\* _add_timeline stamps its entry with _now(); a runbook_engine entry carries
\* the executed_at that execute_step read when the step's call ended, and
\* nothing is awaited between that reading and the append.
RECURSIVE Stamped(_, _, _)
Stamped(clk, st, news) ==
    IF news = <<>> THEN [now |-> clk, stamps |-> st]
    ELSE IF Head(news).source = "runbook_engine"
    THEN LET executed_at == _now(clk)
             t           == StepTimestamp(executed_at, executed_at)
         IN  Stamped(IF t > executed_at THEN t ELSE executed_at,
                     Append(st, t), Tail(news))
    ELSE LET t == _now(clk) IN Stamped(t, Append(st, t), Tail(news))

\* The entries of `tl` that were appended to a timeline holding `old` entries.
NewEntries(old, tl) == SubSeq(tl, Len(old) + 1, Len(tl))

\* Mutant of _append_timeline: a failed step leaves no entry.
_append_timeline_success(tl, i, step_result) ==
    IF step_result.status = "success"
    THEN Append(tl, TimelineEntry("runbook_step_success", "runbook_engine", i))
    ELSE tl

_append_timeline(tl, i, step_result) ==
    Append(tl, TimelineEntry(
        IF step_result.status = "success" THEN "runbook_step_success"
                                          ELSE "runbook_step_failed",
        "runbook_engine", i))

\* The ids _run_steps appends to pending_approval_steps at gate g: the gate, then
\* every later step that has requires_approval.
RECURSIVE GatePending(_, _, _)
GatePending(rb, j, pas) ==
    IF j > Len(rb) THEN pas
    ELSE GatePending(rb, j + 1,
                     IF rb[j].requires_approval THEN Append(pas, j) ELSE pas)

\* Mutant of PauseAtGate: the ids of the gates are not recorded.
PauseAtGate_unlisted(rb, ex, accumulated, g) ==
    [ex EXCEPT
        !.step_results = [k \in 1..Len(rb) |->
            IF k = g
            THEN [status |-> "pending_approval", result |-> EmptyMap,
                  executed_at |-> None]
            ELSE IF k > g /\ ex.step_results[k].status = "absent"
            THEN [status |-> "pending", result |-> EmptyMap, executed_at |-> None]
            ELSE ex.step_results[k]],
        !.status = "awaiting_approval",
        !.results = accumulated]

\* The approval-gate branch of _run_steps at step g.
PauseAtGate(rb, ex, accumulated, g) ==
    [ex EXCEPT
        !.step_results = [k \in 1..Len(rb) |->
            IF k = g
            THEN [status |-> "pending_approval", result |-> EmptyMap,
                  executed_at |-> None]
            ELSE IF k > g /\ ex.step_results[k].status = "absent"
            THEN [status |-> "pending", result |-> EmptyMap, executed_at |-> None]
            ELSE ex.step_results[k]],
        !.pending_approval_steps =
            GatePending(rb, g + 1, Append(ex.pending_approval_steps, g)),
        !.status = "awaiting_approval",
        !.results = accumulated]

\* Mutant of IsGated: one approval in the call opens every gate.
IsGated_any(step, i, approved) == step.requires_approval /\ approved = {}

\* The approval gate test of _run_steps.
IsGated(step, i, approved) == step.requires_approval /\ i \notin approved

\* Mutant of IsFatal: no failed step stops the workflow.
IsFatal_none(step) == FALSE

\* Mutant of IsFatal: every failed step stops the workflow.
IsFatal_all(step) == TRUE

\* A failed step stops the workflow unless it is a gather step.
IsFatal(step) == step.action # "gather"

\* _run_steps from step i on: the execution returned, the steps invoked (in
\* order), the incident's timeline, and the gate it paused at (0 if none).
RECURSIVE _run_steps(_, _, _, _, _, _, _, _)
_run_steps(rb, ex, accumulated, approved, i, o, invoked, tl) ==
    IF i > Len(rb)
    THEN [execution |-> [ex EXCEPT !.status = "completed",
                                   !.completed_at = "set",
                                   !.results = accumulated],
          invoked |-> invoked, timeline |-> tl, paused_at |-> 0]
    ELSE IF IsGated(rb[i], i, approved)
    THEN [execution |-> PauseAtGate(rb, ex, accumulated, i),
          invoked |-> invoked, timeline |-> tl, paused_at |-> i]
    ELSE
        LET sr  == execute_step(i, accumulated, o)
            ex1 == [ex EXCEPT !.step_results[i] = sr]
            tl1 == _append_timeline(tl, i, sr)
            inv == Append(invoked, i)
        IN  IF sr.status = "success"
            THEN _run_steps(rb, ex1, [accumulated EXCEPT ![i] = sr.result],
                            approved, i + 1, o, inv, tl1)
            ELSE IF ~IsFatal(rb[i])
            THEN _run_steps(rb, ex1, [accumulated EXCEPT ![i] = EmptyMap],
                            approved, i + 1, o, inv, tl1)
            ELSE [execution |-> [ex1 EXCEPT !.status = "failed",
                                            !.completed_at = "set",
                                            !.results = accumulated],
                  invoked |-> inv, timeline |-> tl1, paused_at |-> 0]

\* execute_runbook(runbook, incident, pre_approved_steps)
execute_runbook(rb, tl, pre_approved_steps, o) ==
    _run_steps(rb, RunbookExecution(Len(rb)), [k \in 1..Len(rb) |-> NoEntry],
               pre_approved_steps, 1, o, <<>>, tl)

\* The index resume_runbook starts from: the first step without a success result.
StartIndex(rb, ex) ==
    LET completed == {k \in 1..Len(rb) : ex.step_results[k].status = "success"}
        rest      == {k \in 1..Len(rb) : k \notin completed}
    IN  IF rest = {} THEN Len(rb) + 1
        ELSE CHOOSE k \in rest : \A m \in rest : k <= m

\* Mutant of resume_runbook: the status of the execution is not looked at.
resume_runbook_unchecked(rb, tl, ex, approved_step_ids, o) ==
    _run_steps(rb,
               [ex EXCEPT !.status = "running",
                          !.pending_approval_steps = <<>>],
               ex.results, approved_step_ids, StartIndex(rb, ex), o, <<>>, tl)

\* resume_runbook(runbook, incident, execution, approved_step_ids)
resume_runbook(rb, tl, ex, approved_step_ids, o) ==
    IF ex.status # "awaiting_approval"
    THEN [execution |-> ex, invoked |-> <<>>, timeline |-> tl, paused_at |-> 0]
    ELSE _run_steps(rb,
                    [ex EXCEPT !.status = "running",
                               !.pending_approval_steps = <<>>],
                    ex.results, approved_step_ids, StartIndex(rb, ex), o, <<>>, tl)

(***************************************************************************)
(* core/orchestrator.py : Orchestrator                                     *)
(*                                                                         *)
(* Every stage is an operator from the incident (and what the ML engine    *)
(* and the providers do when called) to the incident it leaves behind;     *)
(* `raised` says that the stage ended by an exception it does not catch.   *)
(***************************************************************************)
NoIncident ==
    [status |-> "none", classification |-> None, findings |-> <<>>,
     actions |-> <<>>, timeline |-> <<>>, resolved_at |-> None, summary |-> None]

\* Mutant of _add_timeline: the newest entry is put first.
_add_timeline_front(inc, event_type, source, ref) ==
    [inc EXCEPT !.timeline = <<TimelineEntry(event_type, source, ref)>> \o @]

_add_timeline(inc, event_type, source, ref) ==
    [inc EXCEPT !.timeline = Append(@, TimelineEntry(event_type, source, ref))]

\* What a stage hands back: the incident, whether it raised, the attempts it made
\* on actions, and its return value (ret: a flag, returned: positions of actions,
\* list: a list of findings, attempts: a count; each as the stage uses it).
Done(inc)  == [inc |-> inc, raised |-> FALSE, dispatched |-> <<>>, ret |-> FALSE,
               returned |-> {}, list |-> <<>>, attempts |-> 0, trace |-> <<>>]
Throw(inc) == [Done(inc) EXCEPT !.raised = TRUE]

\* create_incident: the incident is built, then classified; an exception of
\* classify leaves the caller without the incident.
create_incident(ml) ==
    LET i0 == _add_timeline([NoIncident EXCEPT !.status = "new"], "created", None, 0)
        i1 == [i0 EXCEPT !.status = "triaged"]
    IN  IF ml = "raise" THEN Throw(NoIncident)
        ELSE Done(_add_timeline([i1 EXCEPT !.classification = "set"],
                                "classified", "ml_engine", 0))

\* The five guarded blocks of gather_context, in source order.
GatherCalls == <<"monitoring_alerts", "monitoring_logs", "ticketing_changes",
                 "compute_processes", "alerting_incidents">>

\* The provider method each block ends with.
GatherMethods == <<"monitoring.get_current_alerts", "monitoring.get_logs",
                   "ticketing.get_recent_changes", "compute.get_top_processes",
                   "alerting.get_active_incidents">>

\* One call made during an operation: what was called, the block or attempt it
\* belongs to (a number), and its outcome (a string).
Ev(call, arg, out) == [call |-> call, arg |-> arg, out |-> out]

\* What a block meets:
\*   "no_provider"  get_provider raises, no provider method is called
\*   "raise_host"   compute.get_host_info raises (compute block only)
\*   "raise"        the block's provider method raises
\*   "empty", "ok", "two"   it returns no, one, two items
GatherFailures == {"no_provider", "raise_host", "raise"}

Items(x) == IF x = "ok" THEN 1 ELSE IF x = "two" THEN 2 ELSE 0

\* The findings block k appends: one per item returned (alerts, changes,
\* pager incidents), or a single one if anything was returned (logs, processes).
Contribution(k, x) ==
    IF x \in GatherFailures THEN <<>>
    ELSE IF k \in {2, 4}
         THEN (IF Items(x) > 0 THEN <<[source |-> GatherCalls[k], item |-> 1]>> ELSE <<>>)
         ELSE SubSeq(<<[source |-> GatherCalls[k], item |-> 1],
                       [source |-> GatherCalls[k], item |-> 2]>>, 1, Items(x))

\* The calls block k makes: the provider lookup, then the provider methods.
ProviderCalls(k, x) ==
    IF x = "no_provider" THEN <<Ev("get_provider", k, "raise")>>
    ELSE <<Ev("get_provider", k, "ok")>> \o
         (IF k = 4
          THEN IF x = "raise_host" THEN <<Ev("compute.get_host_info", k, "raise")>>
               ELSE <<Ev("compute.get_host_info", k, "ok"), Ev(GatherMethods[k], k, x)>>
          ELSE <<Ev(GatherMethods[k], k, x)>>)

\* Mutant of GatherBlock: a block that raises empties the findings list.
GatherBlock_reset(k, x, acc) ==
    IF x \in GatherFailures THEN <<>> ELSE acc \o Contribution(k, x)

\* Mutant of GatherBlock: a block puts its findings before the earlier ones.
GatherBlock_front(k, x, acc) == Contribution(k, x) \o acc

\* One guarded block: the findings list after it.
GatherBlock(k, x, acc) == acc \o Contribution(k, x)

RECURSIVE GatherFrom(_, _, _)
GatherFrom(k, g, acc) ==
    IF k > Len(GatherCalls) THEN acc
    ELSE GatherFrom(k + 1, g, GatherBlock(k, g[k], acc))

RECURSIVE GatherTrace(_, _, _)
GatherTrace(k, g, acc) ==
    IF k > Len(GatherCalls) THEN acc
    ELSE GatherTrace(k + 1, g, acc \o ProviderCalls(k, g[k]))

\* gather_context: each block adds its findings or, if anything in it raises,
\* nothing; `g` says what each block meets.
gather_context(inc, g) ==
    LET i0 == _add_timeline([inc EXCEPT !.status = "diagnosing"], "gathering", None, 0)
        fs == GatherFrom(1, g, <<>>)
    IN  [Done(_add_timeline([i0 EXCEPT !.findings = fs],
                            "context_gathered", None, Len(fs)))
            EXCEPT !.list = fs,
                   !.trace = <<Ev("gather_context", 0, None)>>
                             \o GatherTrace(1, g, <<>>)
                             \o <<Ev("timeline.context_gathered", Len(fs), None),
                                  Ev("return", Len(fs), None)>>]

diagnose(inc, ml) ==
    LET i0 == _add_timeline(inc, "diagnosing", None, 0) IN
    IF ml = "raise" THEN Throw(i0)
    ELSE Done(_add_timeline(i0, "diagnosed", "ml_engine", 0))

_recommendation_to_action(rec) ==
    NewAction(IF rec.integration # None THEN "execute" ELSE "notify",
              rec.risk_level, rec.requires_approval, rec.integration)

RECURSIVE AppendAll(_, _)
AppendAll(s, t) == IF t = <<>> THEN s ELSE AppendAll(Append(s, Head(t)), Tail(t))

recommend(inc, ml, recs) ==
    IF ml = "raise" THEN Throw(inc)
    ELSE LET acts == [k \in 1..Len(recs) |-> _recommendation_to_action(recs[k])]
             i0   == [inc EXCEPT !.actions = AppendAll(@, acts),
                                 !.status = "awaiting_approval"]
         IN  Done(_add_timeline(i0, "recommended", "ml_engine", Len(recs)))

\* approve_action on the action at position i (its id is found).
approve_action(pol, inc, i, approved_by) ==
    LET r  == add_approval(pol, inc.actions[i], approved_by)
        i0 == [inc EXCEPT !.actions[i] = r.action]
    IN  [Done(_add_timeline(i0, IF r.ret THEN "approved" ELSE "approval_recorded",
                            None, i))
            EXCEPT !.ret = r.ret]

reject_action(inc, i, rejected_by) ==
    Done(_add_timeline([inc EXCEPT !.actions[i] = reject(@, rejected_by)],
                       "rejected", None, i))

RECURSIVE AutoApprovedEntries(_, _, _)
AutoApprovedEntries(inc, k, set) ==
    IF k > Len(inc.actions) THEN inc
    ELSE AutoApprovedEntries(
            IF k \in set THEN _add_timeline(inc, "auto_approved", None, k) ELSE inc,
            k + 1, set)

auto_approve_low_risk(pol, inc) ==
    LET r == apply_auto_approvals(pol, inc.actions) IN
    [Done(AutoApprovedEntries([inc EXCEPT !.actions = r.actions], 1, r.auto_approved))
        EXCEPT !.returned = r.auto_approved]

\* Mutant of Eligible: an undecided action counts as approved.
Eligible_undecided(action) == action.approved # "False" /\ action.executed_at = None

\* The test execute_approved_actions makes before it dispatches an action.
Eligible(action) == action.approved = "True" /\ action.executed_at = None

\* Mutant of _execute_single_action: a failed provider lookup or call leaves
\* executed_at unset.
_execute_single_action_unstamped(action, out) ==
    IF action.integration = None
    THEN [action EXCEPT !.executed_at = "set", !.result = "skipped"]
    ELSE IF out = "no_method" THEN [action EXCEPT !.executed_at = "set", !.error = "set"]
    ELSE IF out = "ok" THEN [action EXCEPT !.executed_at = "set", !.result = "set"]
    ELSE [action EXCEPT !.error = "set"]

\* Mutant of _execute_single_action: a failed provider lookup or call records
\* no error.
_execute_single_action_silent(action, out) ==
    IF action.integration = None
    THEN [action EXCEPT !.executed_at = "set", !.result = "skipped"]
    ELSE IF out = "no_method" THEN [action EXCEPT !.executed_at = "set", !.error = "set"]
    ELSE IF out = "ok" THEN [action EXCEPT !.executed_at = "set", !.result = "set"]
    ELSE [action EXCEPT !.executed_at = "set"]

\* _execute_single_action: `out` is what the integration layer does,
\*   "ok" / "raise"  the provider method is called and returns / raises,
\*   "no_provider"   get_provider raises,
\*   "no_method"     the provider has no such method.
_execute_single_action(action, out) ==
    IF action.integration = None
    THEN [action EXCEPT !.executed_at = "set", !.result = "skipped"]
    ELSE IF out = "no_method" THEN [action EXCEPT !.executed_at = "set", !.error = "set"]
    ELSE IF out = "ok" THEN [action EXCEPT !.executed_at = "set", !.result = "set"]
    ELSE [action EXCEPT !.executed_at = "set", !.error = "set"]

\* What became of an attempt: the provider method was invoked, or not.
AttemptKind(action, out) ==
    IF action.integration = None THEN "skipped"
    ELSE IF out \in {"ok", "raise"} THEN "invoked"
    ELSE out

\* The loop of execute_approved_actions from action k on. Each attempt is logged
\* with the action's decision state at that moment, the approvals its policy
\* needs (`pol`) and the approver names submitted for it so far (`sub`).
RECURSIVE ExecuteFrom(_, _, _, _, _, _)
ExecuteFrom(pol, inc, k, outs, sub, log) ==
    IF k > Len(inc.actions) THEN [Done(inc) EXCEPT !.dispatched = log]
    ELSE IF Eligible(inc.actions[k])
    THEN LET a  == _execute_single_action(inc.actions[k], outs[k])
             i0 == [inc EXCEPT !.actions[k] = a]
         IN  ExecuteFrom(pol, _add_timeline(i0, "executed", None, k), k + 1, outs, sub,
                         Append(log, [idx       |-> k,
                                      kind      |-> AttemptKind(inc.actions[k], outs[k]),
                                      outcome   |-> outs[k],
                                      approved  |-> inc.actions[k].approved,
                                      rejected  |-> inc.actions[k].rejected_by # None,
                                      needed    |-> minimum_approvals_needed(pol, inc.actions[k]),
                                      approvers |-> sub[k]]))
    ELSE ExecuteFrom(pol, inc, k + 1, outs, sub, log)

\* execute_approved_actions: `returned` holds the positions of the actions in the
\* list it returns.
execute_approved_actions(pol, inc, outs, sub) ==
    LET r == ExecuteFrom(pol, [inc EXCEPT !.status = "executing"], 1, outs, sub, <<>>)
    IN  [r EXCEPT !.returned = {r.dispatched[n].idx : n \in 1..Len(r.dispatched)}]

\* The monitoring calls verify makes: none if get_provider raises.
VerifyCalls(mon) ==
    IF mon = "no_provider" THEN <<Ev("get_provider", 0, "raise")>>
    ELSE <<Ev("get_provider", 0, "ok"), Ev("monitoring.get_current_alerts", 0, mon)>>

\* Mutant of verify: a provider error puts the incident back in the status it
\* had before the call.
verify_restore(inc, attempt, mon) ==
    LET i0 == _add_timeline([inc EXCEPT !.status = "verifying"], "verifying", None, attempt)
        tr == <<Ev("verify", attempt, mon)>> \o VerifyCalls(mon)
    IN  IF mon \in {"raise", "no_provider"}
        THEN [Done(_add_timeline([i0 EXCEPT !.status = inc.status],
                                 "verification_error", None, attempt))
                EXCEPT !.attempts = attempt, !.trace = tr]
        ELSE IF mon = "clear"
        THEN [Done(_add_timeline([i0 EXCEPT !.status = "resolved", !.resolved_at = "set"],
                                 "resolved", None, attempt))
                EXCEPT !.ret = TRUE, !.attempts = attempt, !.trace = tr]
        ELSE [Done(_add_timeline(i0, "verification_failed", None, attempt))
                EXCEPT !.attempts = attempt, !.trace = tr]

\* verify(incident, attempt): `mon` is what monitoring does: get_provider raises
\* ("no_provider"), get_current_alerts raises ("raise"), or it returns alerts of
\* which none ("clear") or some ("firing") have status "triggered". ret is the
\* result's resolved flag, attempts its attempts field.
verify(inc, attempt, mon) ==
    LET i0 == _add_timeline([inc EXCEPT !.status = "verifying"], "verifying", None, attempt)
        tr == <<Ev("verify", attempt, mon)>> \o VerifyCalls(mon)
    IN  IF mon \in {"raise", "no_provider"}
        THEN [Done(_add_timeline(i0, "verification_error", None, attempt))
                EXCEPT !.attempts = attempt, !.trace = tr]
        ELSE IF mon = "clear"
        THEN [Done(_add_timeline([i0 EXCEPT !.status = "resolved", !.resolved_at = "set"],
                                 "resolved", None, attempt))
                EXCEPT !.ret = TRUE, !.attempts = attempt, !.trace = tr]
        ELSE [Done(_add_timeline(i0, "verification_failed", None, attempt))
                EXCEPT !.attempts = attempt, !.trace = tr]

\* Mutant of SleepBefore: every attempt is preceded by a sleep.
SleepBefore_always(attempt) == <<Ev("sleep", attempt, None)>>

\* The sleep verify_with_retry makes before an attempt.
SleepBefore(attempt) ==
    IF attempt > 1 THEN <<Ev("sleep", attempt, None)>> ELSE <<>>

\* The loop of verify_with_retry from `attempt` on; mons[k] is what monitoring
\* does at attempt k, `last` the result of the latest attempt, tr the calls so far.
RECURSIVE VerifyFrom(_, _, _, _, _, _)
VerifyFrom(inc, attempt, max_attempts, mons, last, tr) ==
    IF attempt > max_attempts
    THEN [last EXCEPT !.inc = inc, !.trace = tr]
    ELSE LET r   == verify(inc, attempt, mons[attempt])
             tr1 == tr \o SleepBefore(attempt) \o r.trace
         IN  IF r.ret THEN [r EXCEPT !.trace = tr1]
             ELSE VerifyFrom(r.inc, attempt + 1, max_attempts, mons, r, tr1)

\* verify_with_retry: attempts 1..max_attempts until one is resolved.
verify_with_retry(inc, max_attempts, mons) ==
    LET r == VerifyFrom(inc, 1, max_attempts, mons, Done(inc),
                        <<Ev("verify_with_retry", max_attempts, None)>>)
    IN  [r EXCEPT !.trace = Append(@, Ev("return", r.attempts,
                                         IF r.ret THEN "resolved" ELSE "unresolved"))]

summarize(inc, ml) ==
    IF ml = "raise" THEN Throw(inc)
    ELSE Done(_add_timeline([inc EXCEPT !.summary = "set"], "summarized", "ml_engine", 0))

\* What the collaborators do during one run_diagnosis / run_full_workflow.
\*   classify, diagnose, recommend, summarize : "ok" or "raise"
\*   gather : which gather blocks raise      recs : the recommendations returned
\*   outs   : the integration layer, per action
\*   max_attempts, mons : verify_with_retry's argument and monitoring's answers
\* `await stage; rest`: the stage's outcome, taken once, is handed to what
\* follows it.
Then(outcome, Rest(_)) == CHOOSE out \in {Rest(x) : x \in {outcome}} : TRUE

\* One stage of a workflow as the caller's collaborators see it end: the
\* length of the timeline and the status it leaves, or "raise".
Stage(name, r) ==
    Ev(name, Len(r.inc.timeline), IF r.raised THEN "raise" ELSE r.inc.status)

run_diagnosis(pol, env) ==
    Then(create_incident(env.classify), LAMBDA c :
    IF c.raised THEN [c EXCEPT !.trace = <<Stage("create_incident", c)>>] ELSE
    Then(gather_context(c.inc, env.gather), LAMBDA g :
    Then(diagnose(g.inc, env.diagnose), LAMBDA d :
    Then(<<Stage("create_incident", c), Stage("gather_context", g),
           Stage("diagnose", d)>>, LAMBDA t3 :
    IF d.raised THEN [Throw(NoIncident) EXCEPT !.trace = t3] ELSE
    Then(recommend(d.inc, env.recommend, env.recs), LAMBDA r :
    IF r.raised
    THEN [Throw(NoIncident) EXCEPT !.trace = Append(t3, Stage("recommend", r))] ELSE
    Then(auto_approve_low_risk(pol, r.inc), LAMBDA a :
    [Done(a.inc) EXCEPT !.trace = t3 \o <<Stage("recommend", r),
                                          Stage("auto_approve_low_risk", a)>>]))))))

\* Mutant of run_full_workflow: the summary is written only for a resolved incident.
run_full_workflow_resolved(pol, env) ==
    Then(run_diagnosis(pol, env), LAMBDA d :
    IF d.raised THEN d ELSE
    Then(execute_approved_actions(pol, d.inc, env.outs,
                                  [k \in 1..Len(d.inc.actions) |-> {}]), LAMBDA e :
    Then(verify_with_retry(e.inc, env.max_attempts, env.mons), LAMBDA v :
    Then(IF v.ret THEN summarize(v.inc, env.summarize) ELSE Done(v.inc), LAMBDA z :
    Then(d.trace \o <<Stage("execute_approved_actions", e),
                      Stage("verify_with_retry", v)>>
           \o (IF v.ret THEN <<Stage("summarize", z)>> ELSE <<>>), LAMBDA t :
    IF z.raised THEN [Throw(NoIncident) EXCEPT !.dispatched = e.dispatched, !.trace = t]
    ELSE [z EXCEPT !.dispatched = e.dispatched, !.ret = v.ret, !.trace = t])))))

run_full_workflow(pol, env) ==
    Then(run_diagnosis(pol, env), LAMBDA d :
    IF d.raised THEN d ELSE
    Then(execute_approved_actions(pol, d.inc, env.outs,
                                  [k \in 1..Len(d.inc.actions) |-> {}]), LAMBDA e :
    Then(verify_with_retry(e.inc, env.max_attempts, env.mons), LAMBDA v :
    Then(summarize(v.inc, env.summarize), LAMBDA z :
    Then(d.trace \o <<Stage("execute_approved_actions", e),
                      Stage("verify_with_retry", v),
                      Stage("summarize", z)>>, LAMBDA t :
    IF z.raised THEN [Throw(NoIncident) EXCEPT !.dispatched = e.dispatched, !.trace = t]
    ELSE [z EXCEPT !.dispatched = e.dispatched, !.ret = v.ret, !.trace = t])))))

(***************************************************************************)
(* app/config.py : Settings ; integrations/registry.py : IntegrationRegistry*)
(*                                                                         *)
(* A provider instance is identified by the order of its construction.     *)
(***************************************************************************)
\* PROVIDER_MAP: the modes each category has a provider for.
PROVIDER_MAP ==
    [ticketing     |-> {"mock", "servicenow", "jira"},
     monitoring    |-> {"mock", "datadog"},
     alerting      |-> {"mock", "pagerduty"},
     compute       |-> {"mock", "aws"},
     communication |-> {"mock", "slack"}]

\* _MODE_TO_CATEGORY, in the order of the dict's items.
_MODE_TO_CATEGORY ==
    <<[key |-> "servicenow", cat |-> "ticketing"],
      [key |-> "jira",       cat |-> "ticketing"],
      [key |-> "datadog",    cat |-> "monitoring"],
      [key |-> "pagerduty",  cat |-> "alerting"],
      [key |-> "aws",        cat |-> "compute"],
      [key |-> "slack",      cat |-> "communication"]>>

IntegrationKeys == {_MODE_TO_CATEGORY[n].key : n \in 1..Len(_MODE_TO_CATEGORY)}

\* Settings(): runbook_mode defaults to "mock", every <integration>_mode to "".
DefaultSettings ==
    [runbook_mode |-> "mock", mode |-> [k \in IntegrationKeys |-> ""]]

\* Settings.get_integration_mode(integration)
get_integration_mode(s, integration) ==
    LET override == s.mode[integration]
    IN  IF override # "" THEN override ELSE s.runbook_mode

\* The loop of _resolve_mode from the n-th item of _MODE_TO_CATEGORY on.
RECURSIVE ResolveFrom(_, _, _)
ResolveFrom(s, category, n) ==
    IF n > Len(_MODE_TO_CATEGORY) THEN "mock"
    ELSE LET override == get_integration_mode(s, _MODE_TO_CATEGORY[n].key)
         IN  IF /\ _MODE_TO_CATEGORY[n].cat = category
                /\ override # "" /\ override # "mock"
             THEN _MODE_TO_CATEGORY[n].key
             ELSE ResolveFrom(s, category, n + 1)

\* IntegrationRegistry._resolve_mode(category)
_resolve_mode(s, category) == ResolveFrom(s, category, 1)

\* IntegrationRegistry(settings)
NewRegistry == [cache |-> [c \in DOMAIN PROVIDER_MAP |-> 0], instances |-> 0]

\* The exception a get_provider call ended with, if any: ProviderNotFoundError
\* with its category and provider attributes, or whatever importing or
\* constructing the provider class raised.
NoError == [type |-> None, category |-> None, provider |-> None]

ProviderNotFoundError(category, provider) ==
    [type |-> "ProviderNotFoundError", category |-> category, provider |-> provider]

BuildError == [type |-> "Exception", category |-> None, provider |-> None]

\* What a get_provider call did: the instance returned (0 if it raised), the
\* mode it resolved (None if it did not get that far), whether it constructed
\* a provider, and the exception it raised.
Lookup(reg, category, instance, mode, constructed, error) ==
    [reg |-> reg, category |-> category, instance |-> instance, mode |-> mode,
     constructed |-> constructed, raised |-> error # NoError, error |-> error]

\* Mutant of get_provider: the cache is not consulted.
get_provider_uncached(reg, s, category, build) ==
    IF category \notin DOMAIN PROVIDER_MAP
    THEN Lookup(reg, category, 0, None, FALSE, ProviderNotFoundError(category, None))
    ELSE LET mode == _resolve_mode(s, category) IN
         IF mode \notin PROVIDER_MAP[category]
         THEN Lookup(reg, category, 0, mode, FALSE, ProviderNotFoundError(category, mode))
         ELSE IF build = "raise"
         THEN Lookup(reg, category, 0, mode, FALSE, BuildError)
         ELSE LET instance == reg.instances + 1 IN
              Lookup([cache     |-> [reg.cache EXCEPT ![category] = instance],
                      instances |-> instance],
                     category, instance, mode, TRUE, NoError)

\* Mutant of get_provider: a call that fails drops what the registry had cached.
get_provider_dropping(reg, s, category, build) ==
    IF category \in DOMAIN reg.cache /\ reg.cache[category] # 0
    THEN Lookup(reg, category, reg.cache[category], None, FALSE, NoError)
    ELSE IF category \notin DOMAIN PROVIDER_MAP
    THEN Lookup([reg EXCEPT !.cache = [c \in DOMAIN PROVIDER_MAP |-> 0]],
                category, 0, None, FALSE, ProviderNotFoundError(category, None))
    ELSE LET mode == _resolve_mode(s, category) IN
         IF mode \notin PROVIDER_MAP[category]
         THEN Lookup(reg, category, 0, mode, FALSE, ProviderNotFoundError(category, mode))
         ELSE IF build = "raise"
         THEN Lookup(reg, category, 0, mode, FALSE, BuildError)
         ELSE LET instance == reg.instances + 1 IN
              Lookup([cache     |-> [reg.cache EXCEPT ![category] = instance],
                      instances |-> instance],
                     category, instance, mode, TRUE, NoError)

\* IntegrationRegistry.get_provider(category); `build` says whether importing
\* and constructing the provider class works or raises.
get_provider(reg, s, category, build) ==
    IF category \in DOMAIN reg.cache /\ reg.cache[category] # 0
    THEN Lookup(reg, category, reg.cache[category], None, FALSE, NoError)
    ELSE IF category \notin DOMAIN PROVIDER_MAP
    THEN Lookup(reg, category, 0, None, FALSE, ProviderNotFoundError(category, None))
    ELSE LET mode == _resolve_mode(s, category) IN
         IF mode \notin PROVIDER_MAP[category]
         THEN Lookup(reg, category, 0, mode, FALSE, ProviderNotFoundError(category, mode))
         ELSE IF build = "raise"
         THEN Lookup(reg, category, 0, mode, FALSE, BuildError)
         ELSE LET instance == reg.instances + 1 IN
              Lookup([cache     |-> [reg.cache EXCEPT ![category] = instance],
                      instances |-> instance],
                     category, instance, mode, TRUE, NoError)

\* IntegrationRegistry.reset()
reset(reg) == [reg EXCEPT !.cache = [c \in DOMAIN PROVIDER_MAP |-> 0]]

(***************************************************************************)
(* core/runbook_engine.py : resolve_template, resolve_params               *)
(*                                                                         *)
(* A string is the sequence of its segments: stretches of plain text and   *)
(* the matches of _TEMPLATE_RE, each match with the parts of its           *)
(* expression (the text between the braces, split at the dots).            *)
(* A Python value is a record tagged with its type.                        *)
(***************************************************************************)
Text(s)           == [ph |-> FALSE, text |-> s, expr |-> <<>>]
Placeholder(expr) == [ph |-> TRUE, text |-> "", expr |-> expr]

PyNone        == [t |-> "none"]
PyStr(segs)   == [t |-> "str", segs |-> segs]
PyInt(n)      == [t |-> "int", n |-> n]
PyDict(items) == [t |-> "dict", items |-> items]   \* items: <<[key, val], ...>>
PyList(elems) == [t |-> "list", elems |-> elems]
PyObject(items) == [t |-> "object", items |-> items]

Item(key, val) == [key |-> key, val |-> val]

\* dict.get(key) / getattr(obj, key, None) on a sequence of items.
RECURSIVE Get(_, _)
Get(items, key) ==
    IF items = <<>> THEN PyNone
    ELSE IF Head(items).key = key THEN Head(items).val
    ELSE Get(Tail(items), key)

Digits == <<"0", "1", "2", "3", "4", "5", "6", "7", "8", "9">>

\* str(val): the segments of the string form of a value (never a match of
\* _TEMPLATE_RE for the values used here).
str(val) ==
    IF val.t = "str" THEN val.segs
    ELSE IF val.t = "int" THEN <<Text(Digits[val.n + 1])>>
    ELSE IF val.t = "dict" THEN <<Text("{...}")>>
    ELSE IF val.t = "list" THEN <<Text("[...]")>>
    ELSE IF val.t = "object" THEN <<Text("<object>")>>
    ELSE <<Text("None")>>

\* _resolve_field_path(obj, field_path), field_path given by its parts. A str or
\* int has none of the attributes named by the parts used here.
RECURSIVE _resolve_field_path(_, _)
_resolve_field_path(current, parts) ==
    IF parts = <<>> THEN current
    ELSE IF current = PyNone THEN PyNone
    ELSE IF current.t \in {"dict", "object"}
    THEN _resolve_field_path(Get(current.items, Head(parts)), Tail(parts))
    ELSE _resolve_field_path(PyNone, Tail(parts))

\* Mutant of _replace: a value that is falsy is treated like a missing one.
_replace_truthy(match, incident, results) ==
    IF Len(match.expr) < 2 THEN <<match>>
    ELSE LET source == Head(match.expr)
             field  == Tail(match.expr)
             obj    == IF source = "incident" THEN incident ELSE Get(results, source)
             val    == _resolve_field_path(obj, field)
         IN  IF obj # PyNone /\ val \notin {PyNone, PyInt(0), PyStr(<<>>), PyDict(<<>>)}
             THEN str(val) ELSE <<match>>

\* _replace(match) of resolve_template: what one match is replaced with.
_replace(match, incident, results) ==
    IF Len(match.expr) < 2 THEN <<match>>
    ELSE LET source == Head(match.expr)
             field  == Tail(match.expr)
         IN  IF source = "incident"
             THEN LET val == _resolve_field_path(incident, field)
                  IN  IF val # PyNone THEN str(val) ELSE <<match>>
             ELSE LET step_result == Get(results, source)
                      val == _resolve_field_path(step_result, field)
                  IN  IF step_result # PyNone /\ val # PyNone
                      THEN str(val) ELSE <<match>>

\* _TEMPLATE_RE.sub(_replace, value) on the segments of value.
RECURSIVE Sub(_, _, _)
Sub(segs, incident, results) ==
    IF segs = <<>> THEN <<>>
    ELSE (IF Head(segs).ph THEN _replace(Head(segs), incident, results)
                           ELSE <<Head(segs)>>)
         \o Sub(Tail(segs), incident, results)

\* resolve_template(value, incident, step_results)
resolve_template(value, incident, results) ==
    PyStr(Sub(value.segs, incident, results))

\* The list comprehension of resolve_params: the elements of a list value.
RECURSIVE ResolveElements(_, _, _)
ResolveElements(elems, incident, results) ==
    IF elems = <<>> THEN <<>>
    ELSE <<IF Head(elems).t = "str"
           THEN resolve_template(Head(elems), incident, results)
           ELSE Head(elems)>>
         \o ResolveElements(Tail(elems), incident, results)

\* The loop of resolve_params over params.items().
RECURSIVE ResolveItems(_, _, _)
ResolveItems(items, incident, results) ==
    IF items = <<>> THEN <<>>
    ELSE LET val == Head(items).val
             out == IF val.t = "str" THEN resolve_template(val, incident, results)
                    ELSE IF val.t = "dict"
                    THEN PyDict(ResolveItems(val.items, incident, results))
                    ELSE IF val.t = "list"
                    THEN PyList(ResolveElements(val.elems, incident, results))
                    ELSE val
         IN  <<Item(Head(items).key, out)>> \o ResolveItems(Tail(items), incident, results)

\* resolve_params(params, incident, step_results)
resolve_params(params, incident, results) ==
    PyDict(ResolveItems(params.items, incident, results))

(***************************************************************************)
(* Initial values shared by the specifications                             *)
(***************************************************************************)
\* lastOp: the operation, the action index and name it was given, whether that
\* name had been submitted for that action before, and what it returned.
\* (raised: the operation ended by an exception.)
NoOp == [op |-> "init", idx |-> 0, who |-> None, again |-> FALSE,
         ret |-> FALSE, returned |-> {}, list |-> <<>>, raised |-> FALSE]

Op(name, i, who, again, ret, returned) ==
    [op |-> name, idx |-> i, who |-> who, again |-> again,
     ret |-> ret, returned |-> returned, list |-> <<>>, raised |-> FALSE]

Raised(name) == [NoOp EXCEPT !.op = name, !.raised = TRUE]

OrchIdle ==
    /\ status = "none"
    /\ classification = None
    /\ findings = <<>>
    /\ resolved_at = None
    /\ summary = None
    /\ timeline = <<>>
    /\ stamps = <<>>
    /\ now = 0
    /\ dispatched = <<>>
    /\ trace = <<>>

ApprovalIdle ==
    /\ policy = DEFAULT_POLICY
    /\ actions = <<>>
    /\ submitted = <<>>
    /\ lastOp = NoOp
    /\ nops = 0

RunbookIdle ==
    /\ runbook = <<>>
    /\ execution = NewExecution
    /\ calls = <<>>

\* No execute_approved_actions coroutine was created.
NoCoroutine == [pc |-> "idle", k |-> 0, out |-> "None", executed |-> <<>>]

CoroutinesIdle == coroutines = [c \in Coroutines |-> NoCoroutine]

\* Nothing was handed to the resolver.
TemplateIdle ==
    /\ tinput = PyNone
    /\ toutput = PyNone

RegistryIdle ==
    /\ settings = DefaultSettings
    /\ cache = NewRegistry.cache
    /\ instances = NewRegistry.instances
    /\ lookups = <<>>

(***************************************************************************)
(* SpecApproval: the evaluator's operations called on a list of actions    *)
(***************************************************************************)
\* The lists of new actions a caller may hand to the evaluator.
ActionLists ==
    UNION {[1..n -> {NewAction("execute", r, q, None) : r \in RiskLevels, q \in BOOLEAN}]
              : n \in 1..MaxActions}

InitApproval ==
    /\ policy \in Policies
    /\ actions \in ActionLists
    /\ submitted = [i \in 1..Len(actions) |-> {}]
    /\ lastOp = NoOp
    /\ nops = 0
    /\ OrchIdle
    /\ RunbookIdle
    /\ RegistryIdle
    /\ TemplateIdle
    /\ CoroutinesIdle

EvAddApproval(i, who) ==
    /\ nops < MaxOps
    /\ LET r == add_approval(policy, actions[i], who) IN
        /\ actions' = [actions EXCEPT ![i] = r.action]
        /\ lastOp' = Op("add_approval", i, who, who \in submitted[i], r.ret, {})
    /\ submitted' = [submitted EXCEPT ![i] = @ \cup {who}]
    /\ nops' = nops + 1
    /\ UNCHANGED <<policy, orchVars, rbVars, regVars, tplVars, coVars>>

EvReject(i, who) ==
    /\ nops < MaxOps
    /\ actions' = [actions EXCEPT ![i] = reject(@, who)]
    /\ lastOp' = Op("reject", i, who, FALSE, FALSE, {})
    /\ nops' = nops + 1
    /\ UNCHANGED <<policy, submitted, orchVars, rbVars, regVars, tplVars, coVars>>

EvApplyAutoApprovals ==
    /\ nops < MaxOps
    /\ LET r == apply_auto_approvals(policy, actions) IN
        /\ actions' = r.actions
        /\ lastOp' = Op("apply_auto_approvals", 0, None, FALSE, FALSE, r.auto_approved)
    /\ nops' = nops + 1
    /\ UNCHANGED <<policy, submitted, orchVars, rbVars, regVars, tplVars, coVars>>

NextApproval ==
    \/ \E i \in 1..Len(actions), who \in Approvers : EvAddApproval(i, who)
    \/ \E i \in 1..Len(actions), who \in Approvers : EvReject(i, who)
    \/ EvApplyAutoApprovals

SpecApproval == InitApproval /\ [][NextApproval]_vars

(***************************************************************************)
(* Spec: the Orchestrator's approval gate and execution on one incident    *)
(***************************************************************************)
MLOutcomes == {"ok", "raise"}

AllOk == [k \in 1..Len(GatherCalls) |-> "ok"]

\* gather_context with every block working, every block raising, or one raising.
GatherCases ==
    {g \in [1..Len(GatherCalls) -> {"ok", "raise"}] :
        \/ Cardinality({k \in DOMAIN g : g[k] = "raise"}) <= 1
        \/ \A k \in DOMAIN g : g[k] = "raise"}

\* The recommendations the ML engine returns: an automatic one, one for a single
\* approver, one for two approvers, and an informational one.
RecKinds ==
    {[risk_level |-> "low",      requires_approval |-> FALSE, integration |-> "compute"],
     [risk_level |-> "medium",   requires_approval |-> TRUE,  integration |-> "compute"],
     [risk_level |-> "critical", requires_approval |-> TRUE,  integration |-> "compute"],
     [risk_level |-> "high",     requires_approval |-> TRUE,  integration |-> None]}

RecLists == UNION {[1..n -> RecKinds] : n \in 0..MaxActions}

ExecOutcomes == {"ok", "raise", "no_provider", "no_method"}

\* What the integration layer does for each action of the list; only an action
\* that is attempted through a provider has an outcome other than "ok".
OutsFor(acts) ==
    {o \in [1..Len(acts) -> ExecOutcomes] :
        \A k \in 1..Len(acts) :
            ~(Eligible(acts[k]) /\ acts[k].integration # None) => o[k] = "ok"}

MonOutcomes == {"clear", "firing", "raise", "no_provider"}

\* Monitoring's answers to attempts 1..m; after a "clear" no attempt follows.
MonsFor(m) ==
    {ms \in [1..m -> MonOutcomes] :
        \A k \in 1..m : ms[k] = "clear" => \A j \in (k + 1)..m : ms[j] = "clear"}

Env(cl, g, dg, rc, recs, outs, m, mons, sm) ==
    [classify |-> cl, gather |-> g, diagnose |-> dg, recommend |-> rc, recs |-> recs,
     outs |-> outs, max_attempts |-> m, mons |-> mons, summarize |-> sm]

\* The collaborators' behaviour up to the end of run_diagnosis; what follows an
\* exception is never consulted and is written in one way.
DiagnosisEnvs ==
    {Env("raise", AllOk, "ok", "ok", <<>>, <<>>, 1, <<"clear">>, "ok")}
    \cup {Env("ok", g, "raise", "ok", <<>>, <<>>, 1, <<"clear">>, "ok") : g \in GatherCases}
    \cup {Env("ok", g, "ok", "raise", <<>>, <<>>, 1, <<"clear">>, "ok") : g \in GatherCases}
    \cup {Env("ok", g, "ok", "ok", recs, <<>>, 1, <<"clear">>, "ok") :
              g \in GatherCases, recs \in RecLists}

Incident ==
    [status |-> status, classification |-> classification, findings |-> findings,
     actions |-> actions, timeline |-> timeline, resolved_at |-> resolved_at,
     summary |-> summary]

\* The incident and the attempt log after a stage that handed back r.
SetIncident(r) ==
    /\ status' = r.inc.status
    /\ classification' = r.inc.classification
    /\ findings' = r.inc.findings
    /\ actions' = r.inc.actions
    /\ timeline' = r.inc.timeline
    /\ LET c == Stamped(now, stamps, NewEntries(timeline, r.inc.timeline)) IN
        /\ stamps' = c.stamps
        /\ now' = c.now
    /\ resolved_at' = r.inc.resolved_at
    /\ summary' = r.inc.summary
    /\ dispatched' = AppendAll(dispatched, r.dispatched)
    /\ trace' = r.trace

\* The history of submitted approver names, extended over new actions.
SubmittedFor(acts) ==
    [k \in 1..Len(acts) |-> IF k <= Len(submitted) THEN submitted[k] ELSE {}]

Result(name, r) ==
    [op |-> name, idx |-> 0, who |-> None, again |-> FALSE,
     ret |-> r.ret, returned |-> r.returned, list |-> r.list, raised |-> r.raised]

Init ==
    /\ policy \in Policies
    /\ actions = <<>>
    /\ submitted = <<>>
    /\ lastOp = NoOp
    /\ nops = 0
    /\ OrchIdle
    /\ RunbookIdle
    /\ RegistryIdle
    /\ TemplateIdle
    /\ CoroutinesIdle

RunDiagnosis(env) ==
    /\ status = "none"
    /\ nops < MaxOps
    /\ LET r == run_diagnosis(policy, env) IN
        /\ SetIncident(r)
        /\ submitted' = SubmittedFor(r.inc.actions)
        /\ lastOp' = Result("run_diagnosis", r)
    /\ nops' = nops + 1
    /\ UNCHANGED <<policy, rbVars, regVars, tplVars, coVars>>

\* run_full_workflow creates its own incident and hands it over when it returns;
\* the model follows that incident up to the return.
RunFullWorkflow(denv) ==
    /\ status = "none"
    /\ nops = 0
    /\ LET d == run_diagnosis(policy, denv) IN
        \E outs \in OutsFor(d.inc.actions) :
        \E m \in (IF d.raised THEN {1} ELSE 1..MaxAttempts) :
        \E mons \in (IF d.raised THEN {<<"clear">>} ELSE MonsFor(m)) :
        \E sm \in (IF d.raised THEN {"ok"} ELSE MLOutcomes) :
            LET r == run_full_workflow(policy,
                        [denv EXCEPT !.outs = outs, !.max_attempts = m,
                                     !.mons = mons, !.summarize = sm])
            IN  /\ SetIncident(r)
                /\ submitted' = SubmittedFor(r.inc.actions)
                /\ lastOp' = Result("run_full_workflow", r)
    /\ nops' = MaxOps
    /\ UNCHANGED <<policy, rbVars, regVars, tplVars, coVars>>

Recommend(ml, recs) ==
    /\ status # "none"
    /\ nops < MaxOps
    /\ Len(actions) + Len(recs) <= MaxActions
    /\ ml = "raise" => recs = <<>>
    /\ LET r == recommend(Incident, ml, recs) IN
        /\ SetIncident(r)
        /\ submitted' = SubmittedFor(r.inc.actions)
        /\ lastOp' = Result("recommend", r)
    /\ nops' = nops + 1
    /\ UNCHANGED <<policy, rbVars, regVars, tplVars, coVars>>

ApproveAction(i, approved_by) ==
    /\ status # "none"
    /\ nops < MaxOps
    /\ LET r == approve_action(policy, Incident, i, approved_by) IN
        /\ SetIncident(r)
        /\ submitted' = [submitted EXCEPT ![i] = @ \cup {approved_by}]
        /\ lastOp' = [Result("approve_action", r) EXCEPT
                        !.idx = i, !.who = approved_by,
                        !.again = approved_by \in submitted[i]]
    /\ nops' = nops + 1
    /\ UNCHANGED <<policy, rbVars, regVars, tplVars, coVars>>

RejectAction(i, rejected_by) ==
    /\ status # "none"
    /\ nops < MaxOps
    /\ LET r == reject_action(Incident, i, rejected_by) IN
        /\ SetIncident(r)
        /\ lastOp' = [Result("reject_action", r) EXCEPT !.idx = i, !.who = rejected_by]
    /\ nops' = nops + 1
    /\ UNCHANGED <<policy, submitted, rbVars, regVars, tplVars, coVars>>

AutoApproveLowRisk ==
    /\ status # "none"
    /\ nops < MaxOps
    /\ LET r == auto_approve_low_risk(policy, Incident) IN
        /\ SetIncident(r)
        /\ lastOp' = Result("auto_approve_low_risk", r)
    /\ nops' = nops + 1
    /\ UNCHANGED <<policy, submitted, rbVars, regVars, tplVars, coVars>>

ExecuteApprovedActions(outs) ==
    /\ status # "none"
    /\ nops < MaxOps
    /\ LET r == execute_approved_actions(policy, Incident, outs, submitted) IN
        /\ SetIncident(r)
        /\ lastOp' = Result("execute_approved_actions", r)
    /\ nops' = nops + 1
    /\ UNCHANGED <<policy, submitted, rbVars, regVars, tplVars, coVars>>

Next ==
    \/ \E env \in DiagnosisEnvs : RunDiagnosis(env)
    \/ \E env \in DiagnosisEnvs : RunFullWorkflow(env)
    \/ \E ml \in MLOutcomes, recs \in RecLists : Recommend(ml, recs)
    \/ \E i \in 1..Len(actions), who \in Approvers : ApproveAction(i, who)
    \/ \E i \in 1..Len(actions), who \in Approvers : RejectAction(i, who)
    \/ AutoApproveLowRisk
    \/ \E outs \in OutsFor(actions) : ExecuteApprovedActions(outs)

Spec == Init /\ [][Next]_vars

(***************************************************************************)
(* Properties of the approval evaluator                                    *)
(***************************************************************************)
\* C2: an action whose effective policy is require_two and that was never
\* rejected is approved exactly when two distinct approver names have been
\* submitted to add_approval; until then its decision stays undecided.
C2_RequireTwoThreshold ==
    \A i \in 1..Len(actions) :
        (policy_for(policy, actions[i]) = "require_two" /\ actions[i].rejected_by = None)
        => /\ (actions[i].approved = "True") <=> (Cardinality(submitted[i]) >= 2)
           /\ (Cardinality(submitted[i]) < 2) => (actions[i].approved = None)

\* The one approver of a require_two action has just been submitted again.
C2_Witness ==
    /\ lastOp.op = "add_approval"
    /\ lastOp.again
    /\ policy_for(policy, actions[lastOp.idx]) = "require_two"
    /\ actions[lastOp.idx].rejected_by = None
    /\ submitted[lastOp.idx] = {lastOp.who}
    /\ actions[lastOp.idx].approved = None

\* C9: right after reject(action, r) the action has approved = false,
\* rejected_by = r and the same approvals list as before; and a rejected action
\* that needs human approval is not reported approved by is_approved.
C9_RejectedNotApproved ==
    [][ /\ lastOp'.op = "reject" =>
            /\ actions'[lastOp'.idx].approved = "False"
            /\ actions'[lastOp'.idx].rejected_by = lastOp'.who
            /\ actions'[lastOp'.idx].approvals = actions[lastOp'.idx].approvals
        /\ \A i \in 1..Len(actions') :
            (requires_human_approval(policy', actions'[i]) /\ is_rejected(actions'[i]))
            => ~is_approved(policy', actions'[i]) ]_vars

\* C10: an approved action has at least the approvals its policy needs, or was
\* approved by "auto".
C10_ApprovedMeetsThreshold ==
    \A i \in 1..Len(actions) :
        actions[i].approved = "True"
        => \/ Len(actions[i].approvals) >= minimum_approvals_needed(policy, actions[i])
           \/ actions[i].approved_by = "auto"

\* An action that needs two approvals, was rejected, and is approved now.
C10_Witness ==
    \E i \in 1..Len(actions) :
        /\ minimum_approvals_needed(policy, actions[i]) = 2
        /\ actions[i].rejected_by # None
        /\ actions[i].approved = "True"

(***************************************************************************)
(* SpecRunbook: execute_runbook, then resume_runbook calls, on one runbook *)
(***************************************************************************)
Runbooks == UNION {[1..n -> Steps] : n \in 1..MaxSteps}

Outcomes(rb) == [1..Len(rb) -> {"ok", "raise"}]

\* The steps an operator can be asked to approve.
GateIds(rb) == {k \in 1..Len(rb) : rb[k].requires_approval}

\* Only the outcome of a step that is invoked can be observed: the outcome of
\* every other step is written "ok".
Observable(o, invoked) ==
    \A k \in DOMAIN o : k \notin SeqToSet(invoked) => o[k] = "ok"

\* One record per call: its arguments, the provider outcomes it met, the steps
\* it invoked, the gate it paused at, and the execution as the call found it.
Call(kind, approved, o, r, ex) ==
    [kind      |-> kind,
     approved  |-> approved,
     outcome   |-> o,
     invoked   |-> r.invoked,
     paused_at |-> r.paused_at,
     before    |-> ex.status,
     completed |-> {k \in DOMAIN ex.step_results :
                       ex.step_results[k].status = "success"},
     recorded  |-> {k \in DOMAIN ex.step_results :
                       ex.step_results[k].status # "absent"}]

\* No execution yet, or one a caller built with RunbookExecution's defaults
\* (status running) and has not handed to execute_runbook.
InitRunbook ==
    /\ runbook \in Runbooks
    /\ execution \in {NewExecution, RunbookExecution(Len(runbook))}
    /\ calls = <<>>
    /\ ApprovalIdle
    /\ OrchIdle
    /\ RegistryIdle
    /\ TemplateIdle
    /\ CoroutinesIdle

ExecuteRunbook(pre_approved_steps, o) ==
    /\ execution.status = "new"
    /\ Len(calls) < MaxCalls
    /\ LET r == execute_runbook(runbook, timeline, pre_approved_steps, o) IN
        /\ Observable(o, r.invoked)
        /\ execution' = r.execution
        /\ timeline' = r.timeline
        /\ LET c == Stamped(now, stamps, NewEntries(timeline, r.timeline)) IN
            /\ stamps' = c.stamps
            /\ now' = c.now
        /\ calls' = Append(calls, Call("execute", pre_approved_steps, o, r, execution))
    /\ UNCHANGED <<approvalVars, orchRest, runbook, regVars, tplVars, coVars>>

ResumeRunbook(approved_step_ids, o) ==
    /\ execution.status # "new"
    /\ Len(calls) < MaxCalls
    /\ LET r == resume_runbook(runbook, timeline, execution, approved_step_ids, o) IN
        /\ Observable(o, r.invoked)
        /\ execution' = r.execution
        /\ timeline' = r.timeline
        /\ LET c == Stamped(now, stamps, NewEntries(timeline, r.timeline)) IN
            /\ stamps' = c.stamps
            /\ now' = c.now
        /\ calls' = Append(calls, Call("resume", approved_step_ids, o, r, execution))
    /\ UNCHANGED <<approvalVars, orchRest, runbook, regVars, tplVars, coVars>>

NextRunbook ==
    \/ \E a \in SUBSET GateIds(runbook), o \in Outcomes(runbook) : ExecuteRunbook(a, o)
    \/ \E a \in SUBSET GateIds(runbook), o \in Outcomes(runbook) : ResumeRunbook(a, o)

SpecRunbook == InitRunbook /\ [][NextRunbook]_vars

(***************************************************************************)
(* Properties of the runbook executor                                      *)
(***************************************************************************)
LastCall == calls[Len(calls)]

Invoked(c) == SeqToSet(c.invoked)

\* A gate the call may not pass: needs approval, not approved in this call, and
\* not already executed successfully before the call.
UnapprovedGates(c) ==
    {j \in GateIds(runbook) : j \notin c.approved /\ j \notin c.completed}

\* C3: in every call, a requires_approval step is invoked only if the call's
\* approved set contains it, and no step placed after an unapproved gate is
\* invoked in that call.
C3_GatedStepsNeedApproval ==
    \A n \in 1..Len(calls) :
        \A k \in Invoked(calls[n]) :
            /\ runbook[k].requires_approval => k \in calls[n].approved
            /\ \A j \in UnapprovedGates(calls[n]) : k < j

\* A resume that ran an approved gated step and stopped at a later gate that has
\* a step after it.
C3_Witness ==
    /\ Len(calls) >= 2
    /\ LastCall.kind = "resume"
    /\ \E k \in Invoked(LastCall) : runbook[k].requires_approval
    /\ LastCall.paused_at # 0
    /\ LastCall.paused_at < Len(runbook)

\* The step-results of an execution as a caller reads them: status and result
\* mapping of every step that has an entry.
StepView(ex) ==
    [k \in DOMAIN ex.step_results |->
        [status |-> ex.step_results[k].status, result |-> ex.step_results[k].result]]

\* The outcome functions under which every step behaves as it did in calls 1..n.
FixedOutcomes(n) ==
    {f \in Outcomes(runbook) :
        \A m \in 1..n : \A k \in Invoked(calls[m]) : f[k] = calls[m].outcome[k]}

\* execute_runbook paused at its first gate g, then resume_runbook({g}).
PausedThenResumed ==
    /\ Len(calls) = 2
    /\ calls[1].kind = "execute" /\ calls[1].approved = {}
    /\ calls[1].paused_at # 0
    /\ calls[2].kind = "resume" /\ calls[2].approved = {calls[1].paused_at}

\* C4: with each step's provider or ML call behaving the same way whenever it is
\* invoked, pausing at the first gate and resuming with that gate approved ends
\* with the same execution status and the same step_results (statuses and result
\* mappings) as one execute_runbook call with the gate pre-approved.
C4_ResumeEqualsPreApproved ==
    PausedThenResumed =>
        \A f \in FixedOutcomes(2) :
            LET once == execute_runbook(runbook, <<>>, {calls[1].paused_at}, f).execution
            IN  /\ execution.status = once.status
                /\ StepView(execution) = StepView(once)

\* C5: a resume never pauses at a step that was approved in this call or in an
\* earlier call on the same execution.
C5_ApprovalsAccumulate ==
    \A n \in 1..Len(calls) :
        calls[n].paused_at # 0
        => calls[n].paused_at \notin UNION {calls[m].approved : m \in 1..n}

\* C6: when a call stops at an unapproved gate g, the execution is
\* awaiting_approval, every step before g carries its executed outcome, g is
\* pending_approval, every step after g is pending, completed_at is unset and
\* pending_approval_steps starts with g.
C6_PauseShape ==
    (Len(calls) > 0 /\ LastCall.paused_at # 0) =>
        LET g == LastCall.paused_at IN
        /\ execution.status = "awaiting_approval"
        /\ \A k \in 1..(g - 1) :
              execution.step_results[k].status =
                  IF k \in Invoked(LastCall)
                  THEN (IF LastCall.outcome[k] = "ok" THEN "success" ELSE "failed")
                  ELSE "success"
        /\ execution.step_results[g].status = "pending_approval"
        /\ \A k \in (g + 1)..Len(runbook) :
              execution.step_results[k].status = "pending"
        /\ execution.completed_at = None
        /\ Len(execution.pending_approval_steps) > 0
        /\ execution.pending_approval_steps[1] = g

\* The execute steps whose provider call raised in call c.
FailedExecuteSteps(c) ==
    {k \in Invoked(c) : runbook[k].action = "execute" /\ c.outcome[k] = "raise"}

FirstExecuteStep ==
    LET es == {k \in 1..Len(runbook) : runbook[k].action = "execute"} IN
    IF es = {} THEN 0 ELSE CHOOSE k \in es : \A m \in es : k <= m

\* C7: once an execute step has failed, under execute_runbook or under a resume,
\* the execution is failed and no later step is invoked, in that call or after
\* it; and if the failing step is the runbook's first execute step, no later
\* step has an entry in step_results.
C7_ExecuteFailureFatal ==
    \A n \in 1..Len(calls) : \A k \in FailedExecuteSteps(calls[n]) :
        /\ execution.status = "failed"
        /\ \A j \in Invoked(calls[n]) : j <= k
        /\ \A m \in (n + 1)..Len(calls) : calls[m].invoked = <<>>
        /\ k = FirstExecuteStep =>
              \A j \in (k + 1)..Len(runbook) :
                  execution.step_results[j].status = "absent"

\* The gather steps whose provider call raised in call c.
FailedGatherSteps(c) ==
    {k \in Invoked(c) : runbook[k].action = "gather" /\ c.outcome[k] = "raise"}

\* C8: a gather step that fails is recorded failed with an empty mapping in
\* execution.results, the next step is taken up (invoked, or stopped at as a
\* gate), and the execution is failed only if an execute or ml_decision step
\* failed.
C8_GatherFailureNonFatal ==
    /\ (Len(calls) > 0 /\ LastCall.before \in {"new", "awaiting_approval"}) =>
          \A k \in FailedGatherSteps(LastCall) :
              /\ execution.step_results[k].status = "failed"
              /\ execution.results[k] = EmptyMap
              /\ k < Len(runbook) =>
                    (k + 1 \in Invoked(LastCall) \/ LastCall.paused_at = k + 1)
    /\ execution.status = "failed" =>
          \E n \in 1..Len(calls) : \E k \in Invoked(calls[n]) :
              runbook[k].action # "gather" /\ calls[n].outcome[k] = "raise"

\* A gather step failed and a later step ran after it, to completion.
C8_Witness ==
    /\ Len(calls) > 0
    /\ \E k \in FailedGatherSteps(LastCall) : k + 1 \in Invoked(LastCall)
    /\ execution.status = "completed"

(***************************************************************************)
(* Properties of the Orchestrator                                          *)
(***************************************************************************)
\* C1: execute_approved_actions attempts an action only while its approved flag
\* is true, so an action whose policy needs N >= 1 human approvals is attempted
\* only after N distinct approvers were submitted for it; and when
\* run_full_workflow returns, every action that needs human approval is still
\* undecided and unexecuted.
C1_OnlyApprovedDispatched ==
    /\ \A n \in 1..Len(dispatched) :
          /\ dispatched[n].approved = "True"
          /\ dispatched[n].needed >= 1 =>
                Cardinality(dispatched[n].approvers) >= dispatched[n].needed
    /\ (lastOp.op = "run_full_workflow" /\ ~lastOp.raised) =>
          \A i \in 1..Len(actions) :
              requires_human_approval(policy, actions[i]) =>
                  (actions[i].approved = None /\ actions[i].executed_at = None)

\* A provider method was invoked for an action that needs two approvals.
C1_Witness ==
    \E n \in 1..Len(dispatched) :
        /\ dispatched[n].needed = 2
        /\ dispatched[n].kind = "invoked"

(***************************************************************************)
(* Further properties of the approval gate                                 *)
(***************************************************************************)
\* The undecided actions whose policy is auto.
UndecidedAuto ==
    {i \in 1..Len(actions) :
        actions[i].approved = None /\ policy_for(policy, actions[i]) = "auto"}

\* C11: auto_approve_low_risk (apply_auto_approvals) leaves every decided action
\* and every undecided non-auto action as it was, sets approved = true and
\* approved_by = "auto" on exactly the undecided auto actions, returns them and
\* appends one auto_approved entry for each; a second call right after the first
\* changes nothing, returns nothing and appends no timeline entry.
C11_AutoApprovalsIdempotent ==
    [][ lastOp'.op = "auto_approve_low_risk" =>
          /\ Len(actions') = Len(actions)
          /\ \A i \in 1..Len(actions) :
                actions'[i] = IF i \in UndecidedAuto
                              THEN [actions[i] EXCEPT !.approved = "True",
                                                      !.approved_by = "auto"]
                              ELSE actions[i]
          /\ lastOp'.returned = UndecidedAuto
          /\ Len(timeline') = Len(timeline) + Cardinality(UndecidedAuto)
          /\ \A n \in 1..Len(timeline') :
                IF n <= Len(timeline) THEN timeline'[n] = timeline[n]
                ELSE timeline'[n].event_type = "auto_approved"
          /\ lastOp.op = "auto_approve_low_risk" =>
                /\ actions' = actions
                /\ lastOp'.returned = {}
                /\ timeline' = timeline ]_vars

\* auto_approve_low_risk approved an action and passed over a rejected action
\* whose policy is auto.
C11_Witness ==
    /\ lastOp.op = "auto_approve_low_risk"
    /\ lastOp.returned # {}
    /\ \E i \in 1..Len(actions) :
          /\ policy_for(policy, actions[i]) = "auto"
          /\ actions[i].approved = "False"

\* C12: approve_action's add_approval returns true exactly on the call that
\* takes the action from not approved to approved, and false on every other
\* call, also on an action that is approved already; the timeline entry of the
\* call is `approved` in the first case and `approval_recorded` otherwise.
C12_ReturnsTrueOnce ==
    [][ lastOp'.op = "approve_action" =>
          LET i      == lastOp'.idx
              became == actions[i].approved # "True" /\ actions'[i].approved = "True"
          IN  /\ lastOp'.ret <=> became
              /\ timeline'[Len(timeline')].event_type =
                    IF became THEN "approved" ELSE "approval_recorded" ]_vars

\* C13: get_pending_approvals returns, in list order, exactly the actions that
\* need at least one human approval and are still undecided.
C13_PendingExactlyUndecided ==
    get_pending_approvals(policy, actions) =
        SelectSeq([i \in 1..Len(actions) |-> i],
                  LAMBDA i : /\ minimum_approvals_needed(policy, actions[i]) >= 1
                             /\ actions[i].approved = None)

\* After approvals and a rejection, one action that needs human approval is
\* rejected with approvals short of its threshold, and another one is pending.
C13_Witness ==
    /\ Len(actions) = 2
    /\ get_pending_approvals(policy, actions) = <<2>>
    /\ is_rejected(actions[1])
    /\ minimum_approvals_needed(policy, actions[1]) = 2
    /\ Len(actions[1].approvals) = 1

\* C14: every step keeps an action's approvals list as a prefix of the new one;
\* the list holds each submitted approver exactly once; and right after
\* add_approval, approved_by is the last element of the list.
C14_ApprovalsDistinctOrdered ==
    [][ /\ Len(actions') = Len(actions)
        /\ \A i \in 1..Len(actions) :
              LET a == actions[i].approvals
                  b == actions'[i].approvals
              IN  /\ Len(a) <= Len(b)
                  /\ SubSeq(b, 1, Len(a)) = a
                  /\ Cardinality(SeqToSet(b)) = Len(b)
                  /\ SeqToSet(b) = submitted'[i]
                  /\ (lastOp'.op = "add_approval" /\ lastOp'.idx = i)
                        => actions'[i].approved_by = b[Len(b)] ]_vars

\* The first of two approvers of an action has just been submitted again.
C14_Witness ==
    /\ lastOp.op = "add_approval"
    /\ lastOp.again
    /\ Len(actions[lastOp.idx].approvals) = 2
    /\ actions[lastOp.idx].approvals[1] = lastOp.who
    /\ actions[lastOp.idx].approved_by # lastOp.who

(***************************************************************************)
(* Properties of execute_approved_actions                                  *)
(***************************************************************************)
\* An attempt that failed: no provider, no such method, or the method raised.
FailedAttempt(d) ==
    d.kind \in {"no_provider", "no_method"} \/ (d.kind = "invoked" /\ d.outcome = "raise")

\* C15: over all execute_approved_actions calls on the incident, no action is
\* attempted twice, and every attempted action has executed_at set (on the
\* incident the caller holds: a workflow that raised has handed none back).
C15_DispatchedAtMostOnce ==
    /\ \A n, m \in 1..Len(dispatched) :
          dispatched[n].idx = dispatched[m].idx => n = m
    /\ status # "none" =>
          \A n \in 1..Len(dispatched) :
              actions[dispatched[n].idx].executed_at # None

\* execute_approved_actions has just skipped every action, among them one whose
\* provider call had raised, one that had no method, or one without integration.
C15_Witness ==
    /\ lastOp.op = "execute_approved_actions"
    /\ lastOp.returned = {}
    /\ \E n \in 1..Len(dispatched) :
          /\ actions[dispatched[n].idx].approved = "True"
          /\ FailedAttempt(dispatched[n])

\* The positions of the actions with approved = true and no executed_at.
EligiblePositions ==
    SelectSeq([i \in 1..Len(actions) |-> i],
              LAMBDA i : actions[i].approved = "True" /\ actions[i].executed_at = None)

\* C16: one execute_approved_actions call attempts exactly the eligible actions,
\* in list order, whatever the earlier ones met, and does not raise; each
\* attempted action gets executed_at and one `executed` timeline entry, in the
\* same order; and after the call an action's error is set iff its attempt failed.
C16_FailuresIsolated ==
    [][ lastOp'.op = "execute_approved_actions" =>
          LET new == SubSeq(dispatched', Len(dispatched) + 1, Len(dispatched')) IN
          /\ ~lastOp'.raised
          /\ [n \in 1..Len(new) |-> new[n].idx] = EligiblePositions
          /\ \A n \in 1..Len(new) : actions'[new[n].idx].executed_at # None
          /\ timeline' = timeline \o
                [n \in 1..Len(new) |-> TimelineEntry("executed", None, new[n].idx)]
          /\ \A i \in 1..Len(actions') :
                actions'[i].error # None <=>
                    \E n \in 1..Len(dispatched') :
                        dispatched'[n].idx = i /\ FailedAttempt(dispatched'[n]) ]_vars

\* In one call the first action's provider call raised and the second action's
\* succeeded.
C16_Witness ==
    /\ lastOp.op = "execute_approved_actions"
    /\ lastOp.returned = {1, 2}
    /\ actions[1].error # None
    /\ actions[2].error = None /\ actions[2].result = "set"

(***************************************************************************)
(* SpecStages: gather_context, verify and verify_with_retry on an incident *)
(* that create_incident has returned                                       *)
(***************************************************************************)
GatherOutcomes(k) ==
    {"no_provider", "raise", "empty", "ok", "two"}
        \cup (IF k = 4 THEN {"raise_host"} ELSE {})

\* What the five blocks meet: few blocks meet something other than one returned
\* item, or every block fails.
GatherInputs ==
    {g \in [1..Len(GatherCalls) -> UNION {GatherOutcomes(k) : k \in 1..Len(GatherCalls)}] :
        /\ \A k \in DOMAIN g : g[k] \in GatherOutcomes(k)
        /\ \/ Cardinality({k \in DOMAIN g : g[k] # "ok"}) <= MaxDeviations
           \/ \A k \in DOMAIN g : g[k] \in GatherFailures}

InitStages ==
    /\ ApprovalIdle
    /\ OrchIdle
    /\ RunbookIdle
    /\ RegistryIdle
    /\ TemplateIdle
    /\ CoroutinesIdle

\* create_incident(problem_description); the trace keeps what classify did.
CreateIncident(ml) ==
    /\ status = "none"
    /\ LET r == [create_incident(ml) EXCEPT !.trace = <<Ev("classify", 0, ml)>>] IN
        /\ SetIncident(r)
        /\ lastOp' = Result("create_incident", r)
    /\ UNCHANGED <<policy, submitted, nops, rbVars, regVars, tplVars, coVars>>

GatherContext(g) ==
    /\ status # "none"
    /\ nops < MaxStageOps
    /\ LET r == gather_context(Incident, g) IN
        /\ SetIncident(r)
        /\ lastOp' = Result("gather_context", r)
    /\ nops' = nops + 1
    /\ UNCHANGED <<policy, submitted, rbVars, regVars, tplVars, coVars>>

Verify(attempt, mon) ==
    /\ status # "none"
    /\ nops < MaxStageOps
    /\ LET r == verify(Incident, attempt, mon) IN
        /\ SetIncident(r)
        /\ lastOp' = Result("verify", r)
    /\ nops' = nops + 1
    /\ UNCHANGED <<policy, submitted, rbVars, regVars, tplVars, coVars>>

VerifyWithRetry(max_attempts, mons) ==
    /\ status # "none"
    /\ nops < MaxStageOps
    /\ LET r == verify_with_retry(Incident, max_attempts, mons) IN
        /\ SetIncident(r)
        /\ lastOp' = Result("verify_with_retry", r)
    /\ nops' = nops + 1
    /\ UNCHANGED <<policy, submitted, rbVars, regVars, tplVars, coVars>>

NextStages ==
    \/ \E ml \in MLOutcomes : CreateIncident(ml)
    \/ \E g \in GatherInputs : GatherContext(g)
    \/ \E attempt \in 1..MaxRetries, mon \in MonOutcomes : Verify(attempt, mon)
    \/ \E m \in 0..MaxRetries : \E mons \in MonsFor(m) : VerifyWithRetry(m, mons)

SpecStages == InitStages /\ [][NextStages]_vars

(***************************************************************************)
(* Properties of gather_context                                            *)
(***************************************************************************)
\* What block k met, read off the calls the operation made.
Met(tr, k) ==
    IF \E n \in 1..Len(tr) : tr[n] = Ev("get_provider", k, "raise") THEN "no_provider"
    ELSE IF \E n \in 1..Len(tr) : tr[n] = Ev("compute.get_host_info", k, "raise")
         THEN "raise_host"
    ELSE LET n == CHOOSE n \in 1..Len(tr) : tr[n].call = GatherMethods[k] /\ tr[n].arg = k
         IN  tr[n].out

GatherInput(tr) == [k \in 1..Len(GatherCalls) |-> Met(tr, k)]

\* The findings of `fs` that do not come from block k.
WithoutBlock(fs, k) == SelectSeq(fs, LAMBDA f : f.source # GatherCalls[k])

\* C17: gather_context never raises and returns the list it stores; if exactly
\* one block fails, the findings are those of the run in which that block
\* returns something (nothing, one item, two items) with that block's findings
\* taken out; if every block fails the list is empty.
C17_GatherFailureIsolated ==
    lastOp.op = "gather_context" =>
        LET g == GatherInput(trace) IN
        /\ ~lastOp.raised
        /\ lastOp.list = findings
        /\ \A k \in DOMAIN g :
              (g[k] \in GatherFailures /\ \A j \in DOMAIN g \ {k} : g[j] \notin GatherFailures)
              => \A x \in {"empty", "ok", "two"} :
                    findings =
                        WithoutBlock(gather_context(NoIncident, [g EXCEPT ![k] = x]).inc.findings, k)
        /\ (\A k \in DOMAIN g : g[k] \in GatherFailures) => findings = <<>>

\* One block in the middle failed; blocks before and after it contributed.
C17_Witness ==
    /\ lastOp.op = "gather_context"
    /\ GatherInput(trace)[3] \in GatherFailures
    /\ \A j \in {1, 2, 4, 5} : GatherInput(trace)[j] \notin GatherFailures
    /\ \E n, m \in 1..Len(findings) :
          findings[n].source = GatherCalls[1] /\ findings[m].source = GatherCalls[5]

\* The provider methods of gather_context in source order.
ProviderMethods ==
    <<"monitoring.get_current_alerts", "monitoring.get_logs",
      "ticketing.get_recent_changes", "compute.get_host_info",
      "compute.get_top_processes", "alerting.get_active_incidents">>

Rank(seq, x) == CHOOSE n \in 1..Len(seq) : seq[n] = x

\* C18: gather_context calls its provider methods in source order, a method
\* being left out only when its block failed before reaching it; the findings
\* keep the order of the blocks; and the call appends `gathering` and then
\* exactly one `context_gathered` entry carrying the number of findings, the
\* latter after the last provider call, whatever the blocks met.
C18_GatherOrder ==
    [][ lastOp'.op = "gather_context" =>
          LET g  == GatherInput(trace')
              pc == SelectSeq(trace', LAMBDA e : e.call \in SeqToSet(ProviderMethods))
              cg == SelectSeq(trace', LAMBDA e : e.call = "timeline.context_gathered")
          IN  /\ \A n, m \in 1..Len(pc) :
                    n < m => Rank(ProviderMethods, pc[n].call) < Rank(ProviderMethods, pc[m].call)
              /\ {pc[n].call : n \in 1..Len(pc)} =
                    {GatherMethods[k] : k \in {j \in DOMAIN g : g[j] \notin {"no_provider", "raise_host"}}}
                    \cup (IF g[4] # "no_provider" THEN {"compute.get_host_info"} ELSE {})
              /\ \A n, m \in 1..Len(findings') :
                    n < m => Rank(GatherCalls, findings'[n].source)
                                <= Rank(GatherCalls, findings'[m].source)
              /\ timeline' = timeline \o
                    <<TimelineEntry("gathering", None, 0),
                      TimelineEntry("context_gathered", None, Len(findings'))>>
              /\ Len(cg) = 1
              /\ trace'[Len(trace') - 1] = cg[1]
              /\ cg[1].arg = Len(findings') ]_vars

\* Every block returned something: six provider calls, findings of five sources.
C18_Witness ==
    /\ lastOp.op = "gather_context"
    /\ Len(trace) = 14
    /\ {findings[n].source : n \in 1..Len(findings)} = SeqToSet(GatherCalls)
    /\ Len(findings) > 5

(***************************************************************************)
(* Properties of verify and verify_with_retry                              *)
(***************************************************************************)
\* C19: verify_with_retry(max_attempts = M >= 1) calls verify for attempts
\* 1, 2, ..., n where n is the first resolved attempt, or M if there is none;
\* it sleeps once before each attempt but the first; and it returns the result
\* of attempt n, whose attempts field is n.
C19_RetrySchedule ==
    (lastOp.op = "verify_with_retry" /\ trace[1].arg >= 1) =>
        LET M  == trace[1].arg
            vs == SelectSeq(trace, LAMBDA e : e.call = "verify")
            n  == Len(vs)
            \* the calls between the invocation and the return, provider calls left out
            tr == SelectSeq(SubSeq(trace, 2, Len(trace) - 1),
                            LAMBDA e : e.call \in {"verify", "sleep"})
        IN  /\ n >= 1 /\ n <= M
            /\ \A j \in 1..n : vs[j].arg = j
            /\ \A j \in 1..(n - 1) : vs[j].out # "clear"
            /\ n = M \/ vs[n].out = "clear"
            /\ Len(tr) = 2 * n - 1
            /\ \A j \in 1..n : tr[2 * j - 1].call = "verify"
            /\ \A j \in 1..(n - 1) : tr[2 * j].call = "sleep"
            /\ trace[Len(trace)] =
                  Ev("return", n, IF vs[n].out = "clear" THEN "resolved" ELSE "unresolved")
            /\ lastOp.ret <=> (vs[n].out = "clear")

\* Three attempts were allowed; the second one, after one sleep, was resolved.
C19_Witness ==
    /\ lastOp.op = "verify_with_retry"
    /\ trace[1].arg = 3
    /\ lastOp.ret
    /\ Len(SelectSeq(trace, LAMBDA e : e.call = "sleep")) = 1

\* C20: verify appends `verifying`; with no triggered alert it returns resolved,
\* sets status = resolved and resolved_at and appends `resolved`; with a
\* triggered alert it returns unresolved, leaves status = verifying and appends
\* `verification_failed`; if the provider lookup or call raises it does not
\* raise, returns unresolved, leaves status = verifying and appends
\* `verification_error`.
C20_VerifyOutcomes ==
    [][ lastOp'.op = "verify" =>
          LET mon  == trace'[1].out
              att  == trace'[1].arg
              then == IF mon = "clear" THEN "resolved"
                      ELSE IF mon = "firing" THEN "verification_failed"
                      ELSE "verification_error"
          IN  /\ ~lastOp'.raised
              /\ lastOp'.ret <=> (mon = "clear")
              /\ status' = IF mon = "clear" THEN "resolved" ELSE "verifying"
              /\ mon = "clear" => resolved_at' = "set"
              /\ timeline' = timeline \o <<TimelineEntry("verifying", None, att),
                                           TimelineEntry(then, None, att)>> ]_vars

\* verify met a provider error on an incident that an earlier verify had resolved.
C20_Witness ==
    /\ lastOp.op = "verify"
    /\ trace[1].out \in {"raise", "no_provider"}
    /\ resolved_at = "set"
    /\ status = "verifying"

(***************************************************************************)
(* Specification SpecTimeline: Orchestrator stages and runbook calls on    *)
(* one incident, in any order                                              *)
(***************************************************************************)
\* diagnose(incident): an exception of the ML engine leaves the `diagnosing`
\* entry behind.
Diagnose(ml) ==
    /\ status # "none"
    /\ nops < MaxStageOps
    /\ LET r == diagnose(Incident, ml) IN
        /\ SetIncident(r)
        /\ lastOp' = Result("diagnose", r)
    /\ nops' = nops + 1
    /\ UNCHANGED <<policy, submitted, rbVars, regVars, tplVars, coVars>>

NextTimeline ==
    \/ \E ml \in MLOutcomes : CreateIncident(ml)
    \/ /\ status # "none"
       /\ nops + Len(calls) < MaxTimelineOps
       /\ \/ \E g \in GatherCases : GatherContext(g)
          \/ \E ml \in MLOutcomes : Diagnose(ml)
          \/ \E attempt \in 1..MaxAttempts, mon \in MonOutcomes : Verify(attempt, mon)
          \/ \E m \in 1..MaxAttempts : \E mons \in MonsFor(m) : VerifyWithRetry(m, mons)
          \/ \E a \in SUBSET GateIds(runbook), o \in Outcomes(runbook) :
                ExecuteRunbook(a, o)
          \/ \E a \in SUBSET GateIds(runbook), o \in Outcomes(runbook) :
                ResumeRunbook(a, o)

SpecTimeline == InitRunbook /\ [][NextTimeline]_vars

(***************************************************************************)
(* Specification SpecRegistry: get_provider and reset on one registry      *)
(***************************************************************************)
\* The mode settings a deployment can have: "" (unset), "mock", or "live".
ModeValues == {"", "mock", "live"}

\* The integrations whose override is varied; the others keep their default.
VariedKeys == {"servicenow", "jira", "datadog"}

SettingsSet ==
    [runbook_mode : {"mock", "live"},
     mode : {m \in [IntegrationKeys -> ModeValues] :
                \A k \in IntegrationKeys \ VariedKeys : m[k] = ""}]

\* The categories asked for: two of PROVIDER_MAP's and one it does not have.
AskedCategories == {"ticketing", "monitoring", "storage"}

Registry == [cache |-> cache, instances |-> instances]

InitRegistry ==
    /\ settings \in SettingsSet
    /\ cache = NewRegistry.cache
    /\ instances = NewRegistry.instances
    /\ lookups = <<>>
    /\ ApprovalIdle
    /\ OrchIdle
    /\ RunbookIdle
    /\ TemplateIdle
    /\ CoroutinesIdle

\* Only the construction of a provider other than a mock can fail: the mock
\* classes are part of the package, the others are imported on demand.
GetProvider(category, build) ==
    /\ Len(lookups) < MaxRegistryOps
    /\ LET r == get_provider(Registry, settings, category, build) IN
        /\ (build = "raise" => (~r.constructed /\ r.mode \notin {None, "mock"}))
        /\ cache' = r.reg.cache
        /\ instances' = r.reg.instances
        /\ lookups' = Append(lookups,
                             [op |-> "get_provider", category |-> category,
                              instance |-> r.instance, mode |-> r.mode,
                              constructed |-> r.constructed, raised |-> r.raised,
                              error |-> r.error])
    /\ UNCHANGED <<settings, approvalVars, orchVars, rbVars, tplVars, coVars>>

Reset ==
    /\ Len(lookups) < MaxRegistryOps
    /\ LET reg == reset(Registry) IN
        /\ cache' = reg.cache
        /\ instances' = reg.instances
    /\ lookups' = Append(lookups,
                         [op |-> "reset", category |-> None, instance |-> 0,
                          mode |-> None, constructed |-> FALSE, raised |-> FALSE,
                          error |-> NoError])
    /\ UNCHANGED <<settings, approvalVars, orchVars, rbVars, tplVars, coVars>>

NextRegistry ==
    \/ \E category \in AskedCategories, build \in {"ok", "raise"} :
          GetProvider(category, build)
    \/ Reset

SpecRegistry == InitRegistry /\ [][NextRegistry]_vars

(***************************************************************************)
(* Properties of the incident lifecycle                                    *)
(***************************************************************************)
\* C21: in every state reachable by Orchestrator operations on an incident
\* (verify, gather_context or execute_approved_actions called again after a
\* successful verify included), resolved_at is set iff status = resolved.
C21_ResolvedAtIffResolved == (resolved_at # None) <=> (status = "resolved")

\* The lifecycle order of IncidentStatus.
LifecycleOrder ==
    <<"new", "triaged", "diagnosing", "awaiting_approval", "executing",
      "verifying", "resolved", "closed">>

LifecycleRank(s) == CHOOSE n \in 1..Len(LifecycleOrder) : LifecycleOrder[n] = s

\* C22: under any sequence of Orchestrator stage calls on one incident, the
\* status never moves to an earlier status of the lifecycle order, except for
\* the move verifying -> diagnosing.
C22_StatusForwardOnly ==
    [][ status # "none" =>
          \/ LifecycleRank(status') >= LifecycleRank(status)
          \/ (status = "verifying" /\ status' = "diagnosing") ]_vars

\* C23: if the ML classify call raises, create_incident still returns the
\* incident (with its `created` timeline entry), unclassified, instead of
\* propagating the error and losing the incident.
C23_CreateSurvivesClassifyFailure ==
    (lastOp.op = "create_incident" /\ trace[1].out = "raise") =>
        /\ ~lastOp.raised
        /\ status # "none"
        /\ classification = None
        /\ timeline = <<TimelineEntry("created", None, 0)>>

\* The stages of run_full_workflow, with the timeline events each one appends
\* and the statuses it can leave.
StageOrder ==
    <<"create_incident", "gather_context", "diagnose", "recommend",
      "auto_approve_low_risk", "execute_approved_actions", "verify_with_retry",
      "summarize">>

StageEvents ==
    <<{"created", "classified"}, {"gathering", "context_gathered"},
      {"diagnosing", "diagnosed"}, {"recommended"}, {"auto_approved"}, {"executed"},
      {"verifying", "resolved", "verification_failed", "verification_error"},
      {"summarized"}>>

StageStatus ==
    <<{"triaged"}, {"diagnosing"}, {"diagnosing"}, {"awaiting_approval"},
      {"awaiting_approval"}, {"executing"}, {"verifying", "resolved"},
      {"verifying", "resolved"}>>

\* C24: run_full_workflow runs its stages one after another in the order
\* create/classify, gather_context, diagnose, recommend, auto_approve_low_risk,
\* execute_approved_actions, verify_with_retry, summarize: the timeline entries
\* of a stage all follow those of the previous stage, the status only moves
\* forward through triaged, diagnosing, awaiting_approval, executing, verifying
\* (then resolved when verification passes), and summarize runs whether or not
\* verification resolved.
C24_StagesSequential ==
    lastOp.op = "run_full_workflow" =>
        LET n == Len(trace)
            from(k) == IF k = 1 THEN 1 ELSE trace[k - 1].arg + 1
        IN  /\ n \in 1..Len(StageOrder)
            /\ \A k \in 1..n : trace[k].call = StageOrder[k]
            /\ \A k \in 1..(n - 1) : trace[k].out # "raise"
            /\ lastOp.raised <=> (trace[n].out = "raise")
            /\ \A k \in 1..n : trace[k].out # "raise" => trace[k].out \in StageStatus[k]
            /\ \A k \in 1..(n - 1) :
                  trace[k + 1].out # "raise" =>
                      /\ LifecycleRank(trace[k].out) <= LifecycleRank(trace[k + 1].out)
                      /\ trace[k].arg <= trace[k + 1].arg
            /\ ~lastOp.raised =>
                  /\ n = Len(StageOrder)
                  /\ trace[n].arg = Len(timeline)
                  /\ \A k \in 1..n : \A p \in from(k)..trace[k].arg :
                        timeline[p].event_type \in StageEvents[k]
                  /\ timeline[Len(timeline)].event_type = "summarized"
                  /\ summary = "set"
                  /\ status = trace[n - 1].out
                  /\ lastOp.ret <=> (status = "resolved")

\* The workflow executed an action, verification did not resolve, and the
\* summary was written all the same.
C24_Witness ==
    /\ lastOp.op = "run_full_workflow"
    /\ ~lastOp.raised
    /\ ~lastOp.ret
    /\ dispatched # <<>>
    /\ status = "verifying"
    /\ summary = "set"

(***************************************************************************)
(* Properties of the timeline                                              *)
(***************************************************************************)
\* C25: no Orchestrator or Runbook Executor operation removes, reorders or
\* rewrites an existing timeline entry: after every operation, one that fails
\* part-way included, the timeline before it is a prefix of the timeline after.
C25_TimelinePrefix ==
    [][ /\ Len(timeline') >= Len(timeline)
        /\ SubSeq(timeline', 1, Len(timeline)) = timeline ]_vars

\* diagnose raised after it had appended `diagnosing` to a timeline that holds
\* a runbook step's entry.
C25_Witness ==
    /\ lastOp.op = "diagnose"
    /\ lastOp.raised
    /\ timeline[Len(timeline)].event_type = "diagnosing"
    /\ \E p \in 1..Len(timeline) : timeline[p].source = "runbook_engine"

C27_OneEntryPerInvocation ==
    [][ calls' # calls =>
          LET c == calls'[Len(calls')] IN
          NewEntries(timeline, timeline') =
              [j \in 1..Len(c.invoked) |->
                  TimelineEntry(IF c.outcome[c.invoked[j]] = "ok"
                                THEN "runbook_step_success"
                                ELSE "runbook_step_failed",
                                "runbook_engine", c.invoked[j])] ]_vars

\* A call invoked a gather step that failed and a step that succeeded, then
\* paused at a gate with a further gated step left pending.
C27_Witness ==
    /\ calls # <<>>
    /\ LET c == calls[Len(calls)] IN
        /\ c.paused_at # 0
        /\ Len(execution.pending_approval_steps) >= 1
        /\ \E j, k \in 1..Len(c.invoked) :
              c.outcome[c.invoked[j]] = "raise" /\ c.outcome[c.invoked[k]] = "ok"
        /\ Len(timeline) >= 2

\* C28: resume_runbook on an execution whose status is not awaiting_approval
\* (running, completed or failed) returns that execution with every field
\* unchanged, invokes no provider or ML call, and appends no timeline entry.
C28_ResumeNoop ==
    [][ (/\ calls' # calls
         /\ calls'[Len(calls')].kind = "resume"
         /\ execution.status # "awaiting_approval") =>
            /\ execution' = execution
            /\ calls'[Len(calls')].invoked = <<>>
            /\ calls'[Len(calls')].paused_at = 0
            /\ timeline' = timeline
            /\ stamps' = stamps ]_vars

\* resume_runbook was called on an execution that a fatal step had failed.
C28_Witness ==
    /\ Len(calls) >= 2
    /\ calls[Len(calls)].kind = "resume"
    /\ calls[Len(calls)].before = "failed"
    /\ execution.status = "failed"

(***************************************************************************)
(* Properties of the integration registry                                  *)
(***************************************************************************)
\* The get_provider calls of the history that returned an instance.
Returned(n) == lookups[n].op = "get_provider" /\ ~lookups[n].raised

NoResetBetween(i, j) == \A k \in i..j : lookups[k].op # "reset"

\* C29: for one registry, any number of get_provider(c) calls between two
\* reset() calls return the same instance and construct the provider once; the
\* first get_provider(c) after reset() constructs and returns a new instance.
C29_CachedUntilReset ==
    \A j \in 1..Len(lookups) : Returned(j) =>
        LET c     == lookups[j].category
            same  == {i \in 1..(j - 1) :
                        Returned(i) /\ lookups[i].category = c /\ NoResetBetween(i, j)}
        IN  /\ \A i \in same : lookups[i].instance = lookups[j].instance
            /\ lookups[j].constructed <=> (same = {})
            /\ same = {} =>
                  \A i \in 1..(j - 1) : lookups[i].instance # lookups[j].instance

\* get_provider("ticketing") twice, reset(), get_provider("ticketing") again.
C29_Witness ==
    /\ Len(lookups) = 4
    /\ \A n \in {1, 2, 4} : Returned(n) /\ lookups[n].category = "ticketing"
    /\ lookups[3].op = "reset"
    /\ lookups[1].instance = lookups[2].instance
    /\ lookups[4].instance # lookups[1].instance

\* The per-integration override settings of the mode keys of a category.
KeysOf(category) ==
    {_MODE_TO_CATEGORY[n].key : n \in {m \in 1..Len(_MODE_TO_CATEGORY) :
                                         _MODE_TO_CATEGORY[m].cat = category}}

\* C30: for each category, the resolved mode is a non-mock mode key only if the
\* per-integration override of a mode key of that category is non-empty and
\* not "mock"; when every override of the category is empty or "mock", the
\* resolved mode is "mock" whatever the global runbook_mode is.
C30_MockUnlessOverridden ==
    \A n \in 1..Len(lookups) :
        (lookups[n].op = "get_provider" /\ lookups[n].mode # None) =>
            LET c == lookups[n].category IN
            /\ lookups[n].mode # "mock" =>
                  \E k \in KeysOf(c) : settings.mode[k] \notin {"", "mock"}
            /\ (\A k \in KeysOf(c) : settings.mode[k] \in {"", "mock"}) =>
                  lookups[n].mode = "mock"

\* C31: get_provider with a category outside the known ones fails with
\* ProviderNotFoundError carrying that category, and any failed get_provider
\* call leaves the registry cache unchanged, so providers cached earlier are
\* still returned as the same instances.
C31_FailedLookupKeepsCache ==
    [][ (lookups' # lookups /\ lookups'[Len(lookups')].op = "get_provider") =>
          LET l == lookups'[Len(lookups')] IN
          /\ l.category \notin DOMAIN PROVIDER_MAP =>
                l.raised /\ l.error = ProviderNotFoundError(l.category, None)
          /\ l.raised => cache' = cache
          /\ (l.category \in DOMAIN cache /\ cache[l.category] # 0) =>
                ~l.raised /\ l.instance = cache[l.category] ]_vars

\* A provider was cached, a get_provider for an unknown category failed, and
\* the cached provider was returned again.
C31_Witness ==
    /\ Len(lookups) >= 3
    /\ LET n == Len(lookups) IN
        /\ Returned(n - 2) /\ Returned(n)
        /\ lookups[n].category = lookups[n - 2].category
        /\ lookups[n].instance = lookups[n - 2].instance
        /\ lookups[n - 1].error = ProviderNotFoundError("storage", None)


(***************************************************************************)
(* Specification SpecTemplates: resolve_template and resolve_params        *)
(* applied to one input, against one incident and one set of step results  *)
(***************************************************************************)
\* The incident the placeholders are resolved against (core/models.py).
TemplateIncident ==
    PyObject(<<Item("id", PyStr(<<Text("INC-1")>>)),
               Item("title", PyStr(<<Text("High CPU")>>)),
               Item("classification", PyNone),
               Item("summary", PyNone),
               Item("metadata",
                    PyDict(<<Item("host", PyStr(<<Text("prod-web-03")>>)),
                             Item("port", PyInt(0)),
                             Item("owner", PyNone)>>))>>)

\* The results of the steps executed so far; a failed gather left {}.
TemplateResults ==
    <<Item("s1", PyDict(<<Item("cpu", PyInt(7)),
                          Item("host", PyStr(<<Text("web-01")>>)),
                          Item("note", PyNone),
                          Item("disk", PyDict(<<Item("used", PyInt(9))>>))>>)),
      Item("s2", PyDict(<<>>))>>

Expressions ==
    { <<"incident", "id">>, <<"incident", "metadata", "host">>,
      <<"incident", "metadata", "port">>, <<"incident", "metadata">>,
      <<"incident", "metadata", "owner">>, <<"incident", "metadata", "nonexistent">>,
      <<"incident", "summary">>, <<"incident", "summary", "text">>,
      <<"incident", "id", "upper">>, <<"incident", "nonexistent">>,
      <<"incident">>,
      <<"s1", "cpu">>, <<"s1", "host">>, <<"s1", "disk", "used">>, <<"s1", "disk">>,
      <<"s1", "note">>, <<"s1", "missing">>, <<"s1", "cpu", "real">>, <<"s1">>,
      <<"s2", "cpu">>, <<"s9", "cpu">>, <<"s9">> }

Segments == {Text("host "), Text("!")} \cup {Placeholder(e) : e \in Expressions}

SegmentSeqs == UNION {[1..n -> Segments] : n \in 0..MaxSegments}

Templates == {PyStr(segs) : segs \in SegmentSeqs}

ParamLeaves ==
    { PyStr(<<Placeholder(<<"incident", "id">>)>>),
      PyStr(<<Text("host "), Placeholder(<<"s1", "host">>)>>),
      PyInt(5), PyNone }

RECURSIVE ParamValues(_)
ParamValues(depth) ==
    IF depth = 0 THEN ParamLeaves
    ELSE LET inner == ParamValues(depth - 1)
         IN  inner
             \cup {PyDict(<<Item("k", v)>>) : v \in inner}
             \cup {PyList(<<v>>) : v \in inner}
             \cup {PyList(<<v, w>>) : v \in ParamLeaves, w \in inner}

ParamsSet == {PyDict(<<Item("a", v)>>) : v \in ParamValues(MaxDepth)}
    \cup {PyDict(<<Item("a", v), Item("b", w)>>) :
              v \in ParamLeaves, w \in ParamValues(MaxDepth - 1)}

InitTemplates ==
    /\ tinput \in Templates \cup ParamsSet
    /\ toutput = PyNone
    /\ ApprovalIdle
    /\ OrchIdle
    /\ RunbookIdle
    /\ RegistryIdle
    /\ CoroutinesIdle

ResolveTemplate ==
    /\ toutput = PyNone
    /\ tinput.t = "str"
    /\ toutput' = resolve_template(tinput, TemplateIncident, TemplateResults)
    /\ UNCHANGED <<tinput, approvalVars, orchVars, rbVars, regVars, coVars>>

ResolveParams ==
    /\ toutput = PyNone
    /\ tinput.t = "dict"
    /\ toutput' = resolve_params(tinput, TemplateIncident, TemplateResults)
    /\ UNCHANGED <<tinput, approvalVars, orchVars, rbVars, regVars, coVars>>

NextTemplates == ResolveTemplate \/ ResolveParams

SpecTemplates == InitTemplates /\ [][NextTemplates]_vars

(***************************************************************************)
(* Properties of the template resolver                                     *)
(***************************************************************************)
\* The string form of the value each resolvable expression names, written
\* out by hand from TemplateIncident and TemplateResults.
Resolvable ==
    { <<"incident", "id">>, <<"incident", "metadata", "host">>,
      <<"incident", "metadata", "port">>, <<"incident", "metadata">>,
      <<"s1", "cpu">>, <<"s1", "host">>, <<"s1", "disk", "used">>, <<"s1", "disk">> }

StringForm(e) ==
    CASE e = <<"incident", "id">> -> "INC-1"
      [] e = <<"incident", "metadata", "host">> -> "prod-web-03"
      [] e = <<"incident", "metadata", "port">> -> "0"
      [] e = <<"incident", "metadata">> -> "{...}"
      [] e = <<"s1", "cpu">> -> "7"
      [] e = <<"s1", "host">> -> "web-01"
      [] e = <<"s1", "disk", "used">> -> "9"
      [] e = <<"s1", "disk">> -> "{...}"

RECURSIVE ExpectedSegments(_)
ExpectedSegments(segs) ==
    IF segs = <<>> THEN <<>>
    ELSE <<IF Head(segs).ph /\ Head(segs).expr \in Resolvable
           THEN Text(StringForm(Head(segs).expr))
           ELSE Head(segs)>>
         \o ExpectedSegments(Tail(segs))

RECURSIVE DeepResolved(_)
DeepElements(elems) ==
    [i \in 1..Len(elems) |-> DeepResolved(elems[i])]
DeepResolved(val) ==
    IF val.t = "str" THEN PyStr(ExpectedSegments(val.segs))
    ELSE IF val.t = "dict"
    THEN PyDict([i \in 1..Len(val.items) |->
                    Item(val.items[i].key, DeepResolved(val.items[i].val))])
    ELSE IF val.t = "list" THEN PyList(DeepElements(val.elems))
    ELSE val

\* C33: resolve_params interpolates every string value at any nesting depth
\* of the params mapping (nested mappings, lists, mappings and lists inside
\* lists) and returns every non-string leaf unchanged.
C33_ParamsResolvedAtAnyDepth ==
    (tinput.t = "dict" /\ toutput # PyNone) => toutput = DeepResolved(tinput)


(***************************************************************************)
(* Further properties of the runbook executor                              *)
(***************************************************************************)
\* C34: at every pause, each id in pending_approval_steps is a step with
\* requires_approval that is not in the approved set of the call that paused,
\* and the ids are in runbook order without duplicates.
C34_PendingAreBlockedGates ==
    (Len(calls) > 0 /\ LastCall.paused_at # 0) =>
        LET pas == execution.pending_approval_steps IN
        /\ \A n \in 1..Len(pas) :
              /\ runbook[pas[n]].requires_approval
              /\ pas[n] \notin LastCall.approved
        /\ \A n \in 1..(Len(pas) - 1) : pas[n] < pas[n + 1]

\* C36: a resume never invokes a step whose recorded status was already
\* success when the call began, so a step that succeeded is invoked once over
\* execute_runbook and all resumes.
C36_SucceededNotReinvoked ==
    \A n \in 1..Len(calls) :
        calls[n].kind = "resume" => Invoked(calls[n]) \cap calls[n].completed = {}

\* C37: a resume_runbook call on an awaiting_approval execution whose
\* approved_step_ids contain every id of pending_approval_steps ends completed
\* or failed, never awaiting_approval again.
C37_ApprovedResumeFinishes ==
    [][(/\ execution.status = "awaiting_approval"
        /\ Len(calls') = Len(calls) + 1
        /\ LastCall'.kind = "resume"
        /\ SeqToSet(execution.pending_approval_steps) \subseteq LastCall'.approved)
       => execution'.status \in {"completed", "failed"}]_vars

\* C38: an execution returned by a call that began on a new or an
\* awaiting_approval execution is awaiting_approval, completed or failed;
\* completed_at is set iff it is completed or failed, and
\* pending_approval_steps is non-empty iff it is awaiting_approval.
C38_ReturnedShape ==
    (Len(calls) > 0 /\ LastCall.before \in {"new", "awaiting_approval"}) =>
        /\ execution.status \in {"awaiting_approval", "completed", "failed"}
        /\ execution.completed_at # None
              <=> execution.status \in {"completed", "failed"}
        /\ execution.pending_approval_steps # <<>>
              <=> execution.status = "awaiting_approval"

\* A resume that paused again, after an earlier call had paused.
C38_Witness ==
    /\ Len(calls) >= 2
    /\ LastCall.kind = "resume"
    /\ LastCall.before = "awaiting_approval"
    /\ LastCall.invoked # <<>>
    /\ execution.status = "awaiting_approval"
    /\ Len(execution.pending_approval_steps) >= 2

\* C39: in a completed execution every step has a step_results entry that is
\* success, or failed for a gather step; every execute and ml_decision step
\* is success, and execution.results has an entry for every step.
C39_CompletedShape ==
    execution.status = "completed" =>
        \A k \in 1..Len(runbook) :
            /\ \/ execution.step_results[k].status = "success"
               \/ /\ execution.step_results[k].status = "failed"
                  /\ runbook[k].action = "gather"
            /\ execution.results[k] # NoEntry

\* Completed by a resume, with a failed gather step and a succeeded execute step.
C39_Witness ==
    /\ execution.status = "completed"
    /\ Len(calls) >= 2
    /\ LastCall.kind = "resume"
    /\ \E k \in 1..Len(runbook) : execution.step_results[k].status = "failed"
    /\ \E k \in 1..Len(runbook) :
          runbook[k].action = "execute" /\ execution.step_results[k].status = "success"


(***************************************************************************)
(* Rejection and execution                                                 *)
(***************************************************************************)
\* C35: once reject_action has set rejected_by on an action that was not yet
\* executed, no later approve_action, auto_approve_low_risk or
\* execute_approved_actions call has its provider method invoked.
C35_RejectedNeverDispatched ==
    \A n \in 1..Len(dispatched) :
        dispatched[n].kind = "invoked" => ~dispatched[n].rejected


(***************************************************************************)
(* Specification SpecInterleaved: two execute_approved_actions coroutines  *)
(* on one incident. A coroutine runs alone from one suspension point to    *)
(* the next; it is suspended while a provider method it awaits is running. *)
(***************************************************************************)
\* The entry of the attempt log for action k met with outcome out.
Attempt(pol, action, k, out, sub) ==
    [idx       |-> k,
     kind      |-> AttemptKind(action, out),
     outcome   |-> out,
     approved  |-> action.approved,
     rejected  |-> action.rejected_by # None,
     needed    |-> minimum_approvals_needed(pol, action),
     approvers |-> sub[k]]

\* The loop of execute_approved_actions from action k on, up to the next
\* `await method(**action.params)` or to the return. An action without
\* integration, a failed provider lookup and a missing method are dealt with
\* without suspension.
RECURSIVE RunToSuspension(_, _, _, _, _, _, _)
RunToSuspension(pol, inc, k, outs, sub, log, executed) ==
    IF k > Len(inc.actions)
    THEN [inc |-> inc, log |-> log,
          co |-> [pc |-> "done", k |-> 0, out |-> "None", executed |-> executed]]
    ELSE IF ~Eligible(inc.actions[k])
    THEN RunToSuspension(pol, inc, k + 1, outs, sub, log, executed)
    ELSE LET entry == Attempt(pol, inc.actions[k], k, outs[k], sub) IN
         IF entry.kind = "invoked"
         THEN [inc |-> inc, log |-> Append(log, entry),
               co |-> [pc |-> "awaiting", k |-> k, out |-> outs[k],
                       executed |-> executed]]
         ELSE LET a  == _execute_single_action(inc.actions[k], outs[k])
                  i0 == [inc EXCEPT !.actions[k] = a]
              IN  RunToSuspension(pol, _add_timeline(i0, "executed", None, k),
                                  k + 1, outs, sub, Append(log, entry),
                                  Append(executed, k))

\* The incident and the attempt log after a coroutine ran up to r.
SetSuspended(r) ==
    SetIncident([inc |-> r.inc, dispatched |-> r.log, trace |-> trace])

\* A coroutine is created and runs up to its first suspension point.
StartExecute(c, outs) ==
    /\ status # "none"
    /\ coroutines[c].pc = "idle"
    /\ LET r == RunToSuspension(policy, [Incident EXCEPT !.status = "executing"],
                                1, outs, submitted, <<>>, <<>>) IN
        /\ SetSuspended(r)
        /\ coroutines' = [coroutines EXCEPT ![c] = r.co]
    /\ UNCHANGED <<policy, submitted, lastOp, nops, rbVars, regVars, tplVars>>

\* The provider method a coroutine awaits returns or raises; the coroutine
\* stamps the action and runs on to its next suspension point.
ProviderReturns(c, outs) ==
    /\ coroutines[c].pc = "awaiting"
    /\ LET k  == coroutines[c].k
           a  == _execute_single_action(actions[k], coroutines[c].out)
           i0 == _add_timeline([Incident EXCEPT !.actions[k] = a], "executed", None, k)
           r  == RunToSuspension(policy, i0, k + 1, outs, submitted, <<>>,
                                 Append(coroutines[c].executed, k)) IN
        /\ SetSuspended(r)
        /\ coroutines' = [coroutines EXCEPT ![c] = r.co]
    /\ UNCHANGED <<policy, submitted, lastOp, nops, rbVars, regVars, tplVars>>

InitInterleaved == Init /\ policy = DEFAULT_POLICY

NextInterleaved ==
    \/ \E env \in DiagnosisEnvs : RunDiagnosis(env)
    \/ \E c \in Coroutines, outs \in [1..Len(actions) -> ExecOutcomes] :
          StartExecute(c, outs)
    \/ \E c \in Coroutines, outs \in [1..Len(actions) -> ExecOutcomes] :
          ProviderReturns(c, outs)

SpecInterleaved == InitInterleaved /\ [][NextInterleaved]_vars

\* C40: when two execute_approved_actions coroutines interleave at the
\* suspension points of their provider calls, the provider method of each
\* approved action is invoked at most once.
C40_InvokedOncePerAction ==
    \A n, m \in 1..Len(dispatched) :
        (/\ dispatched[n].idx = dispatched[m].idx
         /\ dispatched[n].kind = "invoked"
         /\ dispatched[m].kind = "invoked") => n = m

====
